---- MODULE Spec2Model ----
(***************************************************************************)
(* The consensus diff engine of modules/consensus/diffs.go: every block    *)
(* changes the consensus set through diffs that are committed in the       *)
(* Apply or the Revert direction.  The consensus set is one record cs;     *)
(* every function of diffs.go is an operator from a consensus set to the   *)
(* consensus set it leaves behind.  A panic (a sanity failure) stops the   *)
(* process: the operators leave a consensus set whose panic field is set   *)
(* untouched.  The consensus lock, the readers and the subscribers of the   *)
(* consensus set are the record run.                                       *)
(***************************************************************************)
EXTENDS Integers, Sequences, FiniteSets, TLC

VARIABLES cs, last, run, fs

vars == <<cs, last, run, fs>>

\* ------------------------------------------------------------- bounds
\* The number of transactions in the blocks of the block map.
MaxTxns == 2

\* ---------------------------------------------------------- constants
\* types.MaturityDelay, scaled down.
MaturityDelay == 1
\* The greatest height of a candidate block: a contract that spends the first
\* miner payout is made at height MaturityDelay + 2 and ends one block later.
MaxHeight == MaturityDelay + 3
\* The number of blocks beside the current path (the blocks of other chains
\* and the rejected blocks): enough for a fork that replaces MaturityDelay
\* blocks of the current path.
MaxExtra == MaturityDelay + 1
\* The value of a miner payout (types.CalculateCoinbase).
Coinbase == 2

DiffApply == "apply"
DiffRevert == "revert"
Directions == {DiffApply, DiffRevert}

NoPanic == "none"
NoError == "nil"

\* --------------------------------------------------------------- maps
EmptyMap == [x \in {} |-> 0]
Put(f, k, v) == [x \in (DOMAIN f) \cup {k} |-> IF x = k THEN v ELSE f[x]]
Del(f, k) == [x \in (DOMAIN f) \ {k} |-> f[x]]
Reverse(s) == [i \in 1..Len(s) |-> s[Len(s) + 1 - i]]
Last(s) == s[Len(s)]
IsPrefix(p, s) == Len(p) <= Len(s) /\ SubSeq(s, 1, Len(p)) = p

Panic(c, e) == [c EXCEPT !.panic = e]
Panicked(c) == c.panic # NoPanic

\* ------------------------------------------------ the database (cs.db)
inSiacoinOutputs(c, id) == id \in DOMAIN c.sco
addSiacoinOutputs(c, id, sco) ==
    IF id \in DOMAIN c.sco THEN Panic(c, "Corruption")
    ELSE [c EXCEPT !.sco = Put(@, id, sco)]
rmSiacoinOutputs(c, id) ==
    IF id \notin DOMAIN c.sco THEN Panic(c, "Corruption")
    ELSE [c EXCEPT !.sco = Del(@, id)]

inSiafundOutputs(c, id) == id \in DOMAIN c.sfo
addSiafundOutputs(c, id, sfo) == [c EXCEPT !.sfo = Put(@, id, sfo)]
rmSiafundOutputs(c, id) == [c EXCEPT !.sfo = Del(@, id)]

inFileContracts(c, id) == id \in DOMAIN c.fc
addFileContracts(c, id, fc) == [c EXCEPT !.fc = Put(@, id, fc)]
rmFileContracts(c, id) == [c EXCEPT !.fc = Del(@, id)]

inFCExpirations(c, h) == h \in DOMAIN c.fcExp
addFCExpirations(c, h) ==
    IF h \in DOMAIN c.fcExp THEN c ELSE [c EXCEPT !.fcExp = Put(@, h, {})]
inFCExpirationsHeight(c, h, id) == h \in DOMAIN c.fcExp /\ id \in c.fcExp[h]
addFCExpirationsHeight(c, h, id) ==
    IF h \in DOMAIN c.fcExp THEN [c EXCEPT !.fcExp[h] = @ \cup {id}] ELSE c
rmFCExpirationsHeight(c, h, id) ==
    IF h \in DOMAIN c.fcExp THEN [c EXCEPT !.fcExp[h] = @ \ {id}] ELSE c

inDelayedSiacoinOutputs(c, h) == h \in DOMAIN c.dsco
addDelayedSiacoinOutputs(c, h) ==
    IF h \in DOMAIN c.dsco THEN c ELSE [c EXCEPT !.dsco = Put(@, h, EmptyMap)]
rmDelayedSiacoinOutputs(c, h) ==
    IF h \notin DOMAIN c.dsco THEN c
    ELSE IF DOMAIN c.dsco[h] # {} THEN Panic(c, "Corruption")
    ELSE [c EXCEPT !.dsco = Del(@, h)]
inDelayedSiacoinOutputsHeight(c, h, id) ==
    h \in DOMAIN c.dsco /\ id \in DOMAIN c.dsco[h]
lenDelayedSiacoinOutputsHeight(c, h) ==
    IF h \in DOMAIN c.dsco THEN Cardinality(DOMAIN c.dsco[h]) ELSE 0
addDelayedSiacoinOutputsHeight(c, h, id, sco) ==
    IF h \notin DOMAIN c.dsco THEN Panic(c, "Corruption")
    ELSE [c EXCEPT !.dsco[h] = Put(@, id, sco)]
rmDelayedSiacoinOutputsHeight(c, h, id) ==
    IF h \notin DOMAIN c.dsco THEN Panic(c, "Corruption")
    ELSE [c EXCEPT !.dsco[h] = Del(@, id)]

currentBlockID(c) == Last(c.path)
pushPath(c, id) == [c EXCEPT !.path = Append(@, id)]
popPathFails(c) == Len(c.path) <= 1
popPath(c) == [c EXCEPT !.path = SubSeq(@, 1, Len(@) - 1)]

\* ----------------------------------------------------- committing diffs
\* The step of a function that follows a step which may have panicked.
Then(c, next) == IF Panicked(c) THEN c ELSE next

\* A commit of a siacoin output diff without the sanity check.
commitSiacoinOutputDiffUnchecked(c, scod, dir) ==
    IF Panicked(c) \/ ~c.updateDatabase THEN c
    ELSE IF scod.Direction = dir
         THEN addSiacoinOutputs(c, scod.ID, scod.SiacoinOutput)
         ELSE rmSiacoinOutputs(c, scod.ID)

\* A commit of a siacoin output diff that inserts and never deletes.
commitSiacoinOutputDiffInsertOnly(c, scod, dir) ==
    IF Panicked(c) \/ ~c.updateDatabase THEN c
    ELSE IF scod.Direction = dir
         THEN addSiacoinOutputs(c, scod.ID, scod.SiacoinOutput)
         ELSE c

commitSiacoinOutputDiff(c, scod, dir) ==
    IF Panicked(c) \/ ~c.updateDatabase THEN c
    ELSE IF c.debug /\ (inSiacoinOutputs(c, scod.ID) = (scod.Direction = dir))
         THEN Panic(c, "errBadCommitSiacoinOutputDiff")
    ELSE IF scod.Direction = dir
         THEN addSiacoinOutputs(c, scod.ID, scod.SiacoinOutput)
         ELSE rmSiacoinOutputs(c, scod.ID)

\* The in-memory index cs.fileContractExpirations: an assignment into a map
\* that was never made is a run-time panic of Go, a delete from it is not.
memAddExpiration(c, h, id) ==
    IF h \notin DOMAIN c.fileContractExpirations
    THEN Panic(c, "assignment to entry in nil map")
    ELSE [c EXCEPT !.fileContractExpirations[h] = @ \cup {id}]
memDeleteExpiration(c, h, id) ==
    IF h \notin DOMAIN c.fileContractExpirations THEN c
    ELSE [c EXCEPT !.fileContractExpirations[h] = @ \ {id}]

\* The steps of the insert branch, in the order of the code: the contract,
\* the expiration set of its window end, the sanity check, the expiration.
putFileContract(c, fcd) ==
    IF c.updateDatabase THEN addFileContracts(c, fcd.ID, fcd.FileContract) ELSE c

makeExpirationSet(c, we) ==
    IF ~inFCExpirations(c, we) /\ c.updateDatabase
    THEN addFCExpirations([c EXCEPT !.fileContractExpirations = Put(@, we, {})], we)
    ELSE c

checkNewExpiration(c, we, id) ==
    IF c.debug /\ inFCExpirationsHeight(c, we, id)
    THEN Panic(c, "errExistingFileContractExpiration")
    ELSE c

dbAddExpiration(c, we, id) ==
    IF Panicked(c) \/ ~c.updateDatabase THEN c
    ELSE addFCExpirationsHeight(c, we, id)

putExpiration(c, we, id) ==
    IF Panicked(c) THEN c ELSE dbAddExpiration(memAddExpiration(c, we, id), we, id)

commitFileContractDiffAdd(c, fcd) ==
    putExpiration(
        checkNewExpiration(
            makeExpirationSet(putFileContract(c, fcd), fcd.FileContract.WindowEnd),
            fcd.FileContract.WindowEnd, fcd.ID),
        fcd.FileContract.WindowEnd, fcd.ID)

\* The steps of the delete branch: the contract, the sanity check, the
\* expiration.  Nothing removes the expiration set of the window end.
\* A step that leaves the contract in the table.
dropFileContractSkipped(c, fcd) == c

dropFileContract(c, fcd) ==
    IF c.updateDatabase THEN rmFileContracts(c, fcd.ID) ELSE c

checkExpirationPointer(c, we, id) ==
    IF c.debug /\ c.updateDatabase
       /\ (~inFCExpirations(c, we) \/ ~inFCExpirationsHeight(c, we, id))
    THEN Panic(c, "errBadExpirationPointer")
    ELSE c

\* A step that leaves the expiration of the contract in the database.
dbRemoveExpirationSkipped(c, we, id) == c

dbRemoveExpiration(c, we, id) ==
    IF c.updateDatabase THEN rmFCExpirationsHeight(c, we, id) ELSE c

dropExpiration(c, we, id) ==
    IF Panicked(c) THEN c
    ELSE dbRemoveExpiration(memDeleteExpiration(c, we, id), we, id)

commitFileContractDiffRemove(c, fcd) ==
    dropExpiration(
        checkExpirationPointer(dropFileContract(c, fcd),
                               fcd.FileContract.WindowEnd, fcd.ID),
        fcd.FileContract.WindowEnd, fcd.ID)

commitFileContractDiff(c, fcd, dir) ==
    IF Panicked(c) THEN c
    ELSE IF c.debug /\ c.updateDatabase
            /\ (inFileContracts(c, fcd.ID) = (fcd.Direction = dir))
         THEN Panic(c, "errBadCommitFileContractDiff")
    ELSE IF fcd.Direction = dir
         THEN commitFileContractDiffAdd(c, fcd)
         ELSE commitFileContractDiffRemove(c, fcd)

\* A commit of a siafund output diff that follows the diff's own direction,
\* whatever the direction of the commit.
commitSiafundOutputDiffAsTagged(c, sfod, dir) ==
    IF Panicked(c) \/ ~c.updateDatabase THEN c
    ELSE IF c.debug /\ (inSiafundOutputs(c, sfod.ID) = (sfod.Direction = dir))
         THEN Panic(c, "errBadCommitSiafundOutputDiff")
    ELSE IF sfod.Direction = DiffApply
         THEN addSiafundOutputs(c, sfod.ID, sfod.SiafundOutput)
         ELSE rmSiafundOutputs(c, sfod.ID)

commitSiafundOutputDiff(c, sfod, dir) ==
    IF Panicked(c) \/ ~c.updateDatabase THEN c
    ELSE IF c.debug /\ (inSiafundOutputs(c, sfod.ID) = (sfod.Direction = dir))
         THEN Panic(c, "errBadCommitSiafundOutputDiff")
    ELSE IF sfod.Direction = dir
         THEN addSiafundOutputs(c, sfod.ID, sfod.SiafundOutput)
         ELSE rmSiafundOutputs(c, sfod.ID)

\* A commit of a delayed siacoin output diff without the check of the bucket.
commitDelayedSiacoinOutputDiffAnyHeight(c, dscod, dir) ==
    IF Panicked(c) \/ ~c.updateDatabase THEN c
    ELSE IF c.debug
            /\ (inDelayedSiacoinOutputsHeight(c, dscod.MaturityHeight, dscod.ID)
                = (dscod.Direction = dir))
         THEN Panic(c, "errBadCommitDelayedSiacoinOutputDiff")
    ELSE IF dscod.Direction = dir
         THEN addDelayedSiacoinOutputsHeight(c, dscod.MaturityHeight, dscod.ID,
                                             dscod.SiacoinOutput)
         ELSE rmDelayedSiacoinOutputsHeight(c, dscod.MaturityHeight, dscod.ID)

commitDelayedSiacoinOutputDiff(c, dscod, dir) ==
    IF Panicked(c) \/ ~c.updateDatabase THEN c
    ELSE IF c.debug /\ ~inDelayedSiacoinOutputs(c, dscod.MaturityHeight)
         THEN Panic(c, "errBadMaturityHeight")
    ELSE IF c.debug
            /\ (inDelayedSiacoinOutputsHeight(c, dscod.MaturityHeight, dscod.ID)
                = (dscod.Direction = dir))
         THEN Panic(c, "errBadCommitDelayedSiacoinOutputDiff")
    ELSE IF dscod.Direction = dir
         THEN addDelayedSiacoinOutputsHeight(c, dscod.MaturityHeight, dscod.ID,
                                             dscod.SiacoinOutput)
         ELSE rmDelayedSiacoinOutputsHeight(c, dscod.MaturityHeight, dscod.ID)

\* A commit of a pool diff without the check that the pool does not shrink.
commitSiafundPoolDiffAnyAdjustment(c, sfpd, dir) ==
    IF Panicked(c) THEN c
    ELSE IF c.debug /\ sfpd.Direction # DiffApply
         THEN Panic(c, "errNonApplySiafundPoolDiff")
    ELSE IF dir = DiffApply
         THEN IF c.debug /\ c.siafundPool # sfpd.Previous
              THEN Panic(c, "errApplySiafundPoolDiffMismatch")
              ELSE [c EXCEPT !.siafundPool = sfpd.Adjusted]
         ELSE IF c.debug /\ c.siafundPool # sfpd.Adjusted
              THEN Panic(c, "errRevertSiafundPoolDiffMismatch")
              ELSE [c EXCEPT !.siafundPool = sfpd.Previous]

\* A commit of a pool diff without the comparison with the current pool.
commitSiafundPoolDiffUnmatched(c, sfpd, dir) ==
    IF Panicked(c) THEN c
    ELSE IF c.debug /\ sfpd.Adjusted < sfpd.Previous
         THEN Panic(c, "errNegativePoolAdjustment")
    ELSE IF c.debug /\ sfpd.Direction # DiffApply
         THEN Panic(c, "errNonApplySiafundPoolDiff")
    ELSE IF dir = DiffApply
         THEN [c EXCEPT !.siafundPool = sfpd.Adjusted]
         ELSE [c EXCEPT !.siafundPool = sfpd.Previous]

\* A commit of a pool diff without the check of the diff's own direction.
commitSiafundPoolDiffAnyTag(c, sfpd, dir) ==
    IF Panicked(c) THEN c
    ELSE IF c.debug /\ sfpd.Adjusted < sfpd.Previous
         THEN Panic(c, "errNegativePoolAdjustment")
    ELSE IF dir = DiffApply
         THEN IF c.debug /\ c.siafundPool # sfpd.Previous
              THEN Panic(c, "errApplySiafundPoolDiffMismatch")
              ELSE [c EXCEPT !.siafundPool = sfpd.Adjusted]
         ELSE IF c.debug /\ c.siafundPool # sfpd.Adjusted
              THEN Panic(c, "errRevertSiafundPoolDiffMismatch")
              ELSE [c EXCEPT !.siafundPool = sfpd.Previous]

commitSiafundPoolDiff(c, sfpd, dir) ==
    IF Panicked(c) THEN c
    ELSE IF c.debug /\ sfpd.Adjusted < sfpd.Previous
         THEN Panic(c, "errNegativePoolAdjustment")
    ELSE IF c.debug /\ sfpd.Direction # DiffApply
         THEN Panic(c, "errNonApplySiafundPoolDiff")
    ELSE IF dir = DiffApply
         THEN IF c.debug /\ c.siafundPool # sfpd.Previous
              THEN Panic(c, "errApplySiafundPoolDiffMismatch")
              ELSE [c EXCEPT !.siafundPool = sfpd.Adjusted]
         ELSE IF c.debug /\ c.siafundPool # sfpd.Adjusted
              THEN Panic(c, "errRevertSiafundPoolDiffMismatch")
              ELSE [c EXCEPT !.siafundPool = sfpd.Previous]

\* The sanity check of commitDiffSet, without the check of the current block.
commitDiffSetSanityAnyTip(c, pb, dir) ==
    IF Panicked(c) \/ ~c.debug THEN c
    ELSE IF ~pb.DiffsGenerated THEN Panic(c, "errDiffsNotGenerated")
    ELSE c

commitDiffSetSanity(c, pb, dir) ==
    IF Panicked(c) \/ ~c.debug THEN c
    ELSE IF ~pb.DiffsGenerated THEN Panic(c, "errDiffsNotGenerated")
    ELSE IF dir = DiffApply
         THEN IF pb.Parent # currentBlockID(c)
              THEN Panic(c, "errWrongAppliedDiffSet") ELSE c
         ELSE IF pb.ID # currentBlockID(c)
              THEN Panic(c, "errWrongRevertDiffSet") ELSE c

\* A step that makes no bucket.
createUpcomingDelayedOutputMapsSkipped(c, pb, dir) == c

\* A step that makes the bucket of the block's height on Revert at any height.
createUpcomingDelayedOutputMapsAnyHeight(c, pb, dir) ==
    IF Panicked(c) \/ ~c.updateDatabase THEN c
    ELSE IF dir = DiffApply
         THEN IF c.debug /\ inDelayedSiacoinOutputs(c, pb.Height + MaturityDelay)
              THEN Panic(c, "errCreatingExistingUpcomingMap")
              ELSE addDelayedSiacoinOutputs(c, pb.Height + MaturityDelay)
         ELSE IF c.debug /\ inDelayedSiacoinOutputs(c, pb.Height)
              THEN Panic(c, "errCreatingExistingUpcomingMap")
              ELSE addDelayedSiacoinOutputs(c, pb.Height)

createUpcomingDelayedOutputMaps(c, pb, dir) ==
    IF Panicked(c) \/ ~c.updateDatabase THEN c
    ELSE IF dir = DiffApply
         THEN IF c.debug /\ inDelayedSiacoinOutputs(c, pb.Height + MaturityDelay)
              THEN Panic(c, "errCreatingExistingUpcomingMap")
              ELSE addDelayedSiacoinOutputs(c, pb.Height + MaturityDelay)
         ELSE IF pb.Height > MaturityDelay
              THEN IF c.debug /\ inDelayedSiacoinOutputs(c, pb.Height)
                   THEN Panic(c, "errCreatingExistingUpcomingMap")
                   ELSE addDelayedSiacoinOutputs(c, pb.Height)
              ELSE c

\* One entry of the order in which commitNodeDiffs commits a block's diffs:
\* the list and the index in it.
DiffLists == <<"SiacoinOutputDiffs", "FileContractDiffs", "SiafundOutputDiffs", "DelayedSiacoinOutputDiffs", "SiafundPoolDiffs">>

\* The recorded order of a list in both directions.
ListOrderRecorded(pb, list, dir) ==
    [i \in 1..Len(pb[list]) |-> [list |-> list, index |-> i]]

ListOrder(pb, list, dir) ==
    LET n == Len(pb[list])
    IN  [i \in 1..n |-> [list |-> list,
                         index |-> IF dir = DiffApply THEN i ELSE n + 1 - i]]

\* The order that takes the lists from the last to the first in the Revert
\* direction.
nodeDiffOrderMirrored(pb, dir) ==
    IF dir = DiffApply
    THEN ListOrder(pb, DiffLists[1], dir) \o ListOrder(pb, DiffLists[2], dir)
             \o ListOrder(pb, DiffLists[3], dir) \o ListOrder(pb, DiffLists[4], dir)
             \o ListOrder(pb, DiffLists[5], dir)
    ELSE ListOrder(pb, DiffLists[5], dir) \o ListOrder(pb, DiffLists[4], dir)
             \o ListOrder(pb, DiffLists[3], dir) \o ListOrder(pb, DiffLists[2], dir)
             \o ListOrder(pb, DiffLists[1], dir)

nodeDiffOrder(pb, dir) ==
    ListOrder(pb, DiffLists[1], dir) \o ListOrder(pb, DiffLists[2], dir)
        \o ListOrder(pb, DiffLists[3], dir) \o ListOrder(pb, DiffLists[4], dir)
        \o ListOrder(pb, DiffLists[5], dir)

\* The call of the list's commit function, recorded in cs.committed.
commitOneDiff(c, pb, e, dir) ==
    LET d == pb[e.list][e.index]
        c1 == [c EXCEPT !.committed = Append(@, [list |-> e.list, diff |-> d])]
    IN  IF Panicked(c) THEN c
        ELSE CASE e.list = "SiacoinOutputDiffs" -> commitSiacoinOutputDiff(c1, d, dir)
               [] e.list = "FileContractDiffs" -> commitFileContractDiff(c1, d, dir)
               [] e.list = "SiafundOutputDiffs" -> commitSiafundOutputDiff(c1, d, dir)
               [] e.list = "DelayedSiacoinOutputDiffs" ->
                     commitDelayedSiacoinOutputDiff(c1, d, dir)
               [] e.list = "SiafundPoolDiffs" -> commitSiafundPoolDiff(c1, d, dir)

RECURSIVE commitInOrder(_, _, _, _)
commitInOrder(c, pb, order, dir) ==
    IF order = <<>> THEN c
    ELSE commitInOrder(commitOneDiff(c, pb, Head(order), dir), pb,
                       Tail(order), dir)

commitNodeDiffs(c, pb, dir) == commitInOrder(c, pb, nodeDiffOrder(pb, dir), dir)

\* A step that deletes the bucket without the check that it is empty.
deleteObsoleteDelayedOutputMapsUnchecked(c, pb, dir) ==
    IF Panicked(c) \/ ~c.updateDatabase THEN c
    ELSE IF dir = DiffApply
         THEN IF pb.Height > MaturityDelay
              THEN rmDelayedSiacoinOutputs(c, pb.Height)
              ELSE c
         ELSE rmDelayedSiacoinOutputs(c, pb.Height + MaturityDelay)

\* A step that deletes a bucket on Apply only.
deleteObsoleteDelayedOutputMapsOnApply(c, pb, dir) ==
    IF Panicked(c) \/ ~c.updateDatabase \/ dir = DiffRevert THEN c
    ELSE IF pb.Height > MaturityDelay
         THEN IF c.debug /\ lenDelayedSiacoinOutputsHeight(c, pb.Height) # 0
              THEN Panic(c, "errDeletingNonEmptyDelayedMap")
              ELSE rmDelayedSiacoinOutputs(c, pb.Height)
         ELSE c

\* A step that deletes a bucket on Revert only.
deleteObsoleteDelayedOutputMapsOnRevert(c, pb, dir) ==
    IF Panicked(c) \/ ~c.updateDatabase \/ dir = DiffApply THEN c
    ELSE IF c.debug
            /\ lenDelayedSiacoinOutputsHeight(c, pb.Height + MaturityDelay) # 0
         THEN Panic(c, "errDeletingNonEmptyDelayedMap")
         ELSE rmDelayedSiacoinOutputs(c, pb.Height + MaturityDelay)

deleteObsoleteDelayedOutputMaps(c, pb, dir) ==
    IF Panicked(c) \/ ~c.updateDatabase THEN c
    ELSE IF dir = DiffApply
         THEN IF pb.Height > MaturityDelay
              THEN IF c.debug /\ lenDelayedSiacoinOutputsHeight(c, pb.Height) # 0
                   THEN Panic(c, "errDeletingNonEmptyDelayedMap")
                   ELSE rmDelayedSiacoinOutputs(c, pb.Height)
              ELSE c
         ELSE IF c.debug
                 /\ lenDelayedSiacoinOutputsHeight(c, pb.Height + MaturityDelay) # 0
              THEN Panic(c, "errDeletingNonEmptyDelayedMap")
              ELSE rmDelayedSiacoinOutputs(c, pb.Height + MaturityDelay)

\* A step that counts the blocks applied and not the blocks reverted.
updateCurrentPathUncounted(c, pb, dir) ==
    IF Panicked(c) THEN c
    ELSE IF dir = DiffApply
         THEN [(IF c.updateDatabase THEN pushPath(c, pb.ID) ELSE c)
                  EXCEPT !.blocksLoaded = @ + 1]
         ELSE IF c.updateDatabase /\ popPathFails(c)
              THEN IF c.debug THEN Panic(c, "popPath") ELSE c
              ELSE IF c.updateDatabase THEN popPath(c) ELSE c

\* A step that changes the current path whatever the updateDatabase flag.
updateCurrentPathAlways(c, pb, dir) ==
    IF Panicked(c) THEN c
    ELSE IF dir = DiffApply
         THEN [pushPath(c, pb.ID) EXCEPT !.blocksLoaded = @ + 1]
         ELSE IF popPathFails(c)
              THEN IF c.debug THEN Panic(c, "popPath")
                   ELSE [c EXCEPT !.blocksLoaded = @ - 1]
              ELSE [popPath(c) EXCEPT !.blocksLoaded = @ - 1]

updateCurrentPath(c, pb, dir) ==
    IF Panicked(c) THEN c
    ELSE IF dir = DiffApply
         THEN [(IF c.updateDatabase THEN pushPath(c, pb.ID) ELSE c)
                  EXCEPT !.blocksLoaded = @ + 1]
         ELSE IF c.updateDatabase /\ popPathFails(c)
              THEN IF c.debug THEN Panic(c, "popPath")
                   ELSE [c EXCEPT !.blocksLoaded = @ - 1]
              ELSE [(IF c.updateDatabase THEN popPath(c) ELSE c)
                       EXCEPT !.blocksLoaded = @ - 1]

commitDiffSet(c, pb, dir) ==
    updateCurrentPath(
        deleteObsoleteDelayedOutputMaps(
            commitNodeDiffs(
                createUpcomingDelayedOutputMaps(
                    commitDiffSetSanity(c, pb, dir), pb, dir),
                pb, dir),
            pb, dir),
        pb, dir)

\* ------------------------------------------------ blocks and transactions
\* Ids are sequences of numbers.  A block's id is its parent's id followed by
\* the block's number among the children of that parent, so that the genesis
\* block is <<>> and a block's height is the length of its id.  The id of an
\* output or a contract is a tag followed by the id it is derived from.
GenesisID == <<>>
MinerPayoutID(blockID) == <<0>> \o blockID
SiacoinOutputID(input) == <<1>> \o input
FileContractID(input) == <<2>> \o input
StorageProofOutputID(fcid, valid) == (IF valid THEN <<3>> ELSE <<4>>) \o fcid
SiafundOutputID(input) == <<5>> \o input
SiaClaimOutputID(input) == <<6>> \o input
GenesisSiafundOutputID == <<7>>

\* The part of a contract's payout that goes to the siafund pool.
Tax(value) == value \div 2

TxnKinds == {"siacoin", "contract", "proof", "siafund"}

\* A block that has not been processed: no diffs, not generated.
newChild(id, parent, height, txns) ==
    [ID |-> id, Parent |-> parent, Height |-> height, Transactions |-> txns,
     DiffsGenerated |-> FALSE,
     SiacoinOutputDiffs |-> <<>>, FileContractDiffs |-> <<>>,
     SiafundOutputDiffs |-> <<>>, DelayedSiacoinOutputDiffs |-> <<>>,
     SiafundPoolDiffs |-> <<>>]

\* The ids that the block's diffs so far have removed from a table.
SpentBy(pb, list) ==
    {pb[list][i].ID : i \in {j \in 1..Len(pb[list]) :
                                 pb[list][j].Direction = DiffRevert}}

\* TxValidator: the transaction's input exists in the partially applied
\* state; a storage proof comes no later than the end of the window.
validTransaction(c, pb, txn) ==
    CASE txn.kind \in {"siacoin", "contract"} ->
            IF inSiacoinOutputs(c, txn.input) THEN NoError
            ELSE IF txn.input \in SpentBy(pb, "SiacoinOutputDiffs")
                 THEN "DoubleSpend" ELSE "UnknownInput"
      [] txn.kind = "siafund" ->
            IF inSiafundOutputs(c, txn.input) THEN NoError
            ELSE IF txn.input \in SpentBy(pb, "SiafundOutputDiffs")
                 THEN "DoubleSpend" ELSE "UnknownInput"
      [] txn.kind = "proof" ->
            IF ~inFileContracts(c, txn.input) THEN "UnknownInput"
            ELSE IF c.fc[txn.input].WindowEnd < pb.Height THEN "LateProof"
            ELSE NoError

\* A diff is appended to the block's list and committed at once.
emit(st, list, diff) ==
    LET pb1 == [st.pb EXCEPT ![list] = Append(@, diff)]
    IN  [st EXCEPT !.cs = commitOneDiff(@, pb1,
                                        [list |-> list, index |-> Len(pb1[list])],
                                        DiffApply),
                   !.pb = pb1]

applySiacoinInput(st, txn) ==
    emit(st, "SiacoinOutputDiffs",
         [Direction |-> DiffRevert, ID |-> txn.input,
          SiacoinOutput |-> st.cs.sco[txn.input]])

applySiacoinOutput(st, txn, value) ==
    emit(st, "SiacoinOutputDiffs",
         [Direction |-> DiffApply, ID |-> SiacoinOutputID(txn.input),
          SiacoinOutput |-> value])

\* The tax of a contract's payout is added to the siafund pool.
applyTax(st, value) ==
    emit(st, "SiafundPoolDiffs",
         [Direction |-> DiffApply, Previous |-> st.cs.siafundPool,
          Adjusted |-> st.cs.siafundPool + Tax(value)])

applyFileContract(st, txn, value) ==
    applyTax(emit(st, "FileContractDiffs",
                  [Direction |-> DiffApply, ID |-> FileContractID(txn.input),
                   FileContract |-> [WindowEnd |-> st.pb.Height + 1,
                                     Payout |-> value - Tax(value)]]),
             value)

applyStorageProof(st, txn) ==
    LET fc == st.cs.fc[txn.input]
        st1 == emit(st, "DelayedSiacoinOutputDiffs",
                    [Direction |-> DiffApply,
                     ID |-> StorageProofOutputID(txn.input, TRUE),
                     SiacoinOutput |-> fc.Payout,
                     MaturityHeight |-> st.pb.Height + MaturityDelay])
    IN  emit(st1, "FileContractDiffs",
             [Direction |-> DiffRevert, ID |-> txn.input, FileContract |-> fc])

\* The siafund output that replaces the spent one claims from the pool's
\* value at that time on.
applySiafundOutput(st, txn, sfo) ==
    emit(st, "SiafundOutputDiffs",
         [Direction |-> DiffApply, ID |-> SiafundOutputID(txn.input),
          SiafundOutput |-> [Value |-> sfo.Value,
                             ClaimStart |-> st.cs.siafundPool]])

applySiafundInput(st, txn) ==
    LET sfo == st.cs.sfo[txn.input]
    IN  applySiafundOutput(
            emit(emit(st, "DelayedSiacoinOutputDiffs",
                      [Direction |-> DiffApply, ID |-> SiaClaimOutputID(txn.input),
                       SiacoinOutput |->
                           (st.cs.siafundPool - sfo.ClaimStart) * sfo.Value,
                       MaturityHeight |-> st.pb.Height + MaturityDelay]),
                 "SiafundOutputDiffs",
                 [Direction |-> DiffRevert, ID |-> txn.input, SiafundOutput |-> sfo]),
            txn, sfo)

applyTransaction(st, txn) ==
    CASE txn.kind = "siacoin" ->
            applySiacoinOutput(applySiacoinInput(st, txn), txn,
                               st.cs.sco[txn.input])
      [] txn.kind = "contract" ->
            applyFileContract(applySiacoinInput(st, txn), txn,
                              st.cs.sco[txn.input])
      [] txn.kind = "proof" -> applyStorageProof(st, txn)
      [] txn.kind = "siafund" -> applySiafundInput(st, txn)

\* ---------------------------------------------------------- maintenance
\* A set as a sequence, in the order of the iteration over it.
RECURSIVE SetToSeq(_)
SetToSeq(S) ==
    IF S = {} THEN <<>>
    ELSE LET x == CHOOSE y \in S : TRUE IN <<x>> \o SetToSeq(S \ {x})

RECURSIVE emitAll(_, _, _)
emitAll(st, list, diffs) ==
    IF diffs = <<>> THEN st
    ELSE emitAll(emit(st, list, Head(diffs)), list, Tail(diffs))

\* The outputs of the bucket at the block's height become spendable, and the
\* bucket is deleted.
applyMaturedSiacoinOutputs(st) ==
    IF ~(st.pb.Height > MaturityDelay) \/ Panicked(st.cs) THEN st
    ELSE LET h == st.pb.Height
             bucket == IF h \in DOMAIN st.cs.dsco THEN st.cs.dsco[h] ELSE EmptyMap
             ids == SetToSeq(DOMAIN bucket)
             scods == [i \in 1..Len(ids) |->
                          [Direction |-> DiffApply, ID |-> ids[i],
                           SiacoinOutput |-> bucket[ids[i]]]]
             dscods == [i \in 1..Len(ids) |->
                          [Direction |-> DiffRevert, ID |-> ids[i],
                           SiacoinOutput |-> bucket[ids[i]],
                           MaturityHeight |-> h]]
             st1 == emitAll(st, "SiacoinOutputDiffs", scods)
             st2 == emitAll(st1, "DelayedSiacoinOutputDiffs", dscods)
         IN  [st2 EXCEPT !.cs = Then(@, rmDelayedSiacoinOutputs(@, h))]

applyMissedStorageProof(st, fcid) ==
    LET fc == st.cs.fc[fcid]
        st1 == emit(st, "DelayedSiacoinOutputDiffs",
                    [Direction |-> DiffApply,
                     ID |-> StorageProofOutputID(fcid, FALSE),
                     SiacoinOutput |-> fc.Payout,
                     MaturityHeight |-> st.pb.Height + MaturityDelay])
    IN  emit(st1, "FileContractDiffs",
             [Direction |-> DiffRevert, ID |-> fcid, FileContract |-> fc])

RECURSIVE applyMissedStorageProofs(_, _)
applyMissedStorageProofs(st, fcids) ==
    IF fcids = <<>> THEN st
    ELSE applyMissedStorageProofs(applyMissedStorageProof(st, Head(fcids)),
                                  Tail(fcids))

\* The contracts whose window ends at the block's height have missed their
\* proof: each is resolved by its own diffs, which leaves the expiration set
\* of that height with no ids.
applyFileContractMaintenance(st) ==
    IF Panicked(st.cs) THEN st
    ELSE LET h == st.pb.Height
             expiring == IF h \in DOMAIN st.cs.fcExp THEN st.cs.fcExp[h] ELSE {}
         IN  applyMissedStorageProofs(st, SetToSeq(expiring))

applyMinerPayouts(st) ==
    emit(st, "DelayedSiacoinOutputDiffs",
         [Direction |-> DiffApply, ID |-> MinerPayoutID(st.pb.ID),
          SiacoinOutput |-> Coinbase,
          MaturityHeight |-> st.pb.Height + MaturityDelay])

applyMaintenance(st) ==
    applyFileContractMaintenance(applyMaturedSiacoinOutputs(applyMinerPayouts(st)))

\* ------------------------------------------------- generateAndApplyDiff
\* Removes the block and its descendants from the block map.
deleteNode(c, pb) ==
    [c EXCEPT !.blockMap =
        [id \in {i \in DOMAIN c.blockMap : ~IsPrefix(pb.ID, i)} |-> c.blockMap[id]]]

\* The loop over the block's transactions: st.err is the first validation
\* error, after which nothing more is validated or applied.
\* The block leaves the block map and is not recorded as invalid.
invalidateBlockUnrecorded(c, pb) ==
    IF Panicked(c) THEN c ELSE deleteNode(c, pb)

\* The block is recorded as invalid and leaves the block map.
invalidateBlock(c, pb) ==
    IF Panicked(c) THEN c
    ELSE deleteNode([c EXCEPT !.dosBlocks = @ \cup {pb.ID}], pb)

\* The path of a transaction that is not valid: the block's diffs so far are
\* reverted and the error is returned.
rejectBlock(st, err) ==
    [cs |-> invalidateBlock(commitDiffSet(st.cs, st.pb, DiffRevert), st.pb),
     pb |-> st.pb, err |-> err]

\* The loop that reverts a block with a transaction that is not valid
\* without applying the matured outputs first.
RECURSIVE applyTransactionsUnmatured(_, _)
applyTransactionsUnmatured(st, txns) ==
    IF txns = <<>> \/ Panicked(st.cs) THEN st
    ELSE IF validTransaction(st.cs, st.pb, Head(txns)) # NoError
         THEN rejectBlock(st, validTransaction(st.cs, st.pb, Head(txns)))
         ELSE applyTransactionsUnmatured(applyTransaction(st, Head(txns)),
                                         Tail(txns))

\* The loop that validates every transaction still to come against the state
\* before the current one is applied.
RECURSIVE applyTransactionsValidatedFirst(_, _)
applyTransactionsValidatedFirst(st, txns) ==
    IF txns = <<>> \/ Panicked(st.cs) THEN st
    ELSE IF \E i \in 1..Len(txns) : validTransaction(st.cs, st.pb, txns[i]) # NoError
         THEN rejectBlock(applyMaturedSiacoinOutputs(st),
                          validTransaction(st.cs, st.pb,
                              txns[CHOOSE i \in 1..Len(txns) :
                                      /\ validTransaction(st.cs, st.pb, txns[i]) # NoError
                                      /\ \A j \in 1..(i - 1) :
                                            validTransaction(st.cs, st.pb, txns[j])
                                                = NoError]))
         ELSE applyTransactionsValidatedFirst(applyTransaction(st, Head(txns)),
                                              Tail(txns))

RECURSIVE applyTransactions(_, _)
applyTransactions(st, txns) ==
    IF txns = <<>> \/ Panicked(st.cs) THEN st
    ELSE IF validTransaction(st.cs, st.pb, Head(txns)) # NoError
         THEN rejectBlock(applyMaturedSiacoinOutputs(st),
                          validTransaction(st.cs, st.pb, Head(txns)))
         ELSE applyTransactions(applyTransaction(st, Head(txns)), Tail(txns))

\* The processed block replaces the unprocessed one in the block map.
replaceInBlockMap(st, fail) ==
    IF Panicked(st.cs) THEN [cs |-> st.cs, err |-> NoError]
    ELSE IF fail = "rmBlockMap" THEN [cs |-> st.cs, err |-> "storage"]
    ELSE IF fail = "addBlockMap"
         THEN [cs |-> [st.cs EXCEPT !.blockMap = Del(@, st.pb.ID)], err |-> "storage"]
    ELSE [cs |-> [st.cs EXCEPT !.blockMap = Put(@, st.pb.ID, st.pb)],
          err |-> NoError]

\* What follows the loop over the transactions.
maintainAndStore(st, fail) ==
    IF st.err # NoError \/ Panicked(st.cs) THEN [cs |-> st.cs, err |-> st.err]
    ELSE replaceInBlockMap(applyMaintenance(st), fail)

\* The sanity check at the start of generateAndApplyDiff, without the check
\* of the parent.
generateSanityAnyParent(c, pb) ==
    IF c.debug /\ pb.DiffsGenerated THEN Panic(c, "errRegenerateDiffs") ELSE c

\* The sanity check at the start of generateAndApplyDiff.
generateSanity(c, pb) ==
    IF c.debug /\ pb.DiffsGenerated THEN Panic(c, "errRegenerateDiffs")
    ELSE IF c.debug /\ pb.Parent # currentBlockID(c)
         THEN Panic(c, "errInvalidSuccessor")
    ELSE c

\* A generation that never sets the block's DiffsGenerated flag.
generateAndApplyDiffUnflagged(c, pb, fail) ==
    IF Panicked(c) THEN [cs |-> c, err |-> NoError]
    ELSE IF Panicked(generateSanity(c, pb))
         THEN [cs |-> generateSanity(c, pb), err |-> NoError]
    ELSE IF fail = "pushPath" THEN [cs |-> c, err |-> "storage"]
    ELSE maintainAndStore(
             applyTransactions(
                 [cs |-> addDelayedSiacoinOutputs(
                             [pushPath(c, pb.ID) EXCEPT !.blocksLoaded = @ + 1],
                             pb.Height + MaturityDelay),
                  pb |-> pb,
                  err |-> NoError],
                 pb.Transactions),
             fail)

\* The result is the consensus set and the error returned.  fail names the
\* database operation that returns a storage error, if one does.
generateAndApplyDiff(c, pb, fail) ==
    IF Panicked(c) THEN [cs |-> c, err |-> NoError]
    ELSE IF Panicked(generateSanity(c, pb))
         THEN [cs |-> generateSanity(c, pb), err |-> NoError]
    ELSE IF fail = "pushPath" THEN [cs |-> c, err |-> "storage"]
    ELSE maintainAndStore(
             applyTransactions(
                 [cs |-> addDelayedSiacoinOutputs(
                             [pushPath(c, pb.ID) EXCEPT !.blocksLoaded = @ + 1],
                             pb.Height + MaturityDelay),
                  pb |-> [pb EXCEPT !.DiffsGenerated = TRUE],
                  err |-> NoError],
                 pb.Transactions),
             fail)

\* ------------------------------------------------------ ReorgCoordinator
currentProcessedBlock(c) == c.blockMap[currentBlockID(c)]

\* The blocks from the node back to the first one on the current path, the
\* node first and the common parent last.
RECURSIVE backtrackToCurrentPath(_, _)
backtrackToCurrentPath(c, id) ==
    IF \E i \in 1..Len(c.path) : c.path[i] = id THEN <<id>>
    ELSE <<id>> \o backtrackToCurrentPath(c, c.blockMap[id].Parent)

RECURSIVE revertToNode(_, _)
revertToNode(c, id) ==
    IF Panicked(c) \/ currentBlockID(c) = id \/ Len(c.path) <= 1 THEN c
    ELSE revertToNode(commitDiffSet(c, currentProcessedBlock(c), DiffRevert), id)

\* ids: the blocks to apply, the last one first.
RECURSIVE applyUntilNode(_, _)
applyUntilNode(r, ids) ==
    IF ids = <<>> \/ r.err # NoError \/ Panicked(r.cs) THEN r
    ELSE LET pb == r.cs.blockMap[Last(ids)]
             rest == SubSeq(ids, 1, Len(ids) - 1)
         IN  IF pb.DiffsGenerated
             THEN applyUntilNode([r EXCEPT !.cs = commitDiffSet(@, pb, DiffApply)],
                                 rest)
             ELSE applyUntilNode(generateAndApplyDiff(r.cs, pb, "none"), rest)

\* The consensus set is moved from the common parent to the node: the blocks
\* of the backtrack but its last are applied.
applyBacktrack(c, backtrack) ==
    applyUntilNode([cs |-> c, err |-> NoError],
                   SubSeq(backtrack, 1, Len(backtrack) - 1))

\* A block of the new chain is not valid: back to the old head.
restoreOldHead(c, oldHead) ==
    applyBacktrack(c, backtrackToCurrentPath(c, oldHead))

finishFork(applied, commonParent, oldHead) ==
    IF applied.err = NoError \/ Panicked(applied.cs) THEN applied
    ELSE [cs |-> restoreOldHead(revertToNode(applied.cs, commonParent), oldHead).cs,
          err |-> applied.err]

forkAlong(c, backtrack) ==
    finishFork(applyBacktrack(revertToNode(c, Last(backtrack)), backtrack),
               Last(backtrack), currentBlockID(c))

forkBlockchain(c, newNode) == forkAlong(c, backtrackToCurrentPath(c, newNode))

\* --------------------------------------------------------------- inputs
Height(c) == Len(c.path) - 1
OnPath(c, id) == \E i \in 1..Len(c.path) : c.path[i] = id

\* The transactions a candidate block may hold: each spends an output or
\* proves a contract of the current consensus set.  On another chain than the
\* one the block is applied on, the input may not exist.
KnownTxns(c) ==
    {[kind |-> k, input |-> i] : k \in {"siacoin", "contract"}, i \in DOMAIN c.sco}
    \cup {[kind |-> "siafund", input |-> i] : i \in DOMAIN c.sfo}
    \cup {[kind |-> "proof", input |-> i] : i \in DOMAIN c.fc}

\* The blocks beside the current path, and the transactions in the block map.
Extra(c) == Cardinality(DOMAIN c.blockMap) - Len(c.path) + Cardinality(c.dosBlocks)

RECURSIVE SumLen(_, _)
SumLen(c, ids) ==
    IF ids = {} THEN 0
    ELSE LET b == CHOOSE x \in ids : TRUE
         IN  Len(c.blockMap[b].Transactions) + SumLen(c, ids \ {b})

TxnCount(c) == SumLen(c, DOMAIN c.blockMap)

\* A second transaction of a block: it spends what the first one spends or
\* what the first one creates.
FollowUps(t) ==
    CASE t.kind = "siacoin" ->
            {[kind |-> "siacoin", input |-> i] :
                i \in {t.input, SiacoinOutputID(t.input)}}
      [] t.kind = "contract" ->
            {[kind |-> "siacoin", input |-> t.input],
             [kind |-> "proof", input |-> FileContractID(t.input)]}
      [] t.kind = "siafund" -> {t}
      [] t.kind = "proof" -> {t}

CandidateTransactions(c) ==
    {<<>>} \cup {<<t>> : t \in KnownTxns(c)}
        \cup UNION {{<<t, u>> : u \in FollowUps(t)} : t \in KnownTxns(c)}

\* The id of a new child: the first number that no known child has.
ChildID(c, parent) ==
    LET free == {k \in 1..(Cardinality(DOMAIN c.blockMap) + Cardinality(c.dosBlocks)) :
                    Append(parent, k) \notin (DOMAIN c.blockMap) \cup c.dosBlocks}
    IN  Append(parent, CHOOSE k \in free : \A j \in free : k <= j)

\* ------------------------------------------------------------- the state
\* The genesis block carries the diff of the genesis siafund output.
GenesisSiafundOutput == [Value |-> 1, ClaimStart |-> 0]

GenesisBlock ==
    [newChild(GenesisID, GenesisID, 0, <<>>) EXCEPT
        !.DiffsGenerated = TRUE,
        !.SiafundOutputDiffs = <<[Direction |-> DiffApply,
                                  ID |-> GenesisSiafundOutputID,
                                  SiafundOutput |-> GenesisSiafundOutput]>>]

GenesisState(debug) ==
    [path |-> <<GenesisID>>,
     sco |-> EmptyMap,
     sfo |-> Put(EmptyMap, GenesisSiafundOutputID, GenesisSiafundOutput),
     fc |-> EmptyMap,
     fcExp |-> EmptyMap,
     fileContractExpirations |-> EmptyMap,
     dsco |-> EmptyMap,
     siafundPool |-> 0,
     blocksLoaded |-> 1,
     dosBlocks |-> {},
     blockMap |-> Put(EmptyMap, GenesisID, GenesisBlock),
     committed |-> <<>>,
     updateDatabase |-> TRUE,
     debug |-> debug,
     panic |-> NoPanic]

NoCall == [op |-> "none", id |-> GenesisID, err |-> NoError, legal |-> TRUE]

\* What a reader of the consensus set observes.
Snapshot(c) ==
    [path |-> c.path, sco |-> c.sco, sfo |-> c.sfo, fc |-> c.fc, dsco |-> c.dsco,
     fcExp |-> c.fcExp, siafundPool |-> c.siafundPool]

\* The consensus lock is free and no call is in progress: pc is the position
\* of the writer in generateAndApplyDiff or commitDiffSet on the block pb,
\* boundary the snapshot when the lock was last free, seen the snapshot a
\* reader took and seenBoundary the boundary at that time, todo the
\* transactions of pb that are still to be validated, changes the
\* blocks committed under the lock that is held, queue the notifications
\* on their way to the subscriber and delivered the ones it has received.
Idle ==
    [lock |-> "free", pc |-> "idle", pb |-> GenesisBlock, dir |-> DiffApply,
     err |-> NoError,
     boundary |-> Snapshot(GenesisState(TRUE)),
     seen |-> Snapshot(GenesisState(TRUE)),
     seenBoundary |-> Snapshot(GenesisState(TRUE)),
     todo |-> <<>>, changes |-> <<>>, queue |-> <<>>, delivered |-> <<>>]

\* ------------------------------------------ the tree of package filesystem
\* The directories on disk: d in the root, e in d, and the files f and g in e.
RootDir == "root"
NoDir == "none"
Dirs == {RootDir, "d", "e"}
FileNames == {"f", "g"}

staticParent(n) ==
    CASE n = "d" -> RootDir
      [] n = "e" -> "d"
      [] OTHER -> NoDir

DiskDirs(n) == {c \in Dirs : staticParent(c) = n}
DiskFiles(n) == IF n = "e" THEN FileNames ELSE {}

\* The threads that call into the tree.
Procs == {"t1", "t2"}
Free == "free"

\* A thread that is in no call.
NoHandle == 0
IdleProc == [pc |-> "idle", node |-> RootDir, child |-> NoDir, h |-> NoHandle,
             op |-> "none", todo |-> <<>>]

\* The tree with the root only: threads, directories and files are the maps
\* of each DNode, which all copies of the node share, mu is the holder of the
\* node's mutex, handles are the copies of nodes that threads have made (the
\* threadUID, the node, whether the SiaDir is loaded, the owner) and uid is
\* the last threadUID given out.
EmptyTree ==
    [threads |-> [n \in Dirs |-> {}],
     directories |-> [n \in Dirs |-> {}],
     files |-> [n \in Dirs |-> {}],
     mu |-> [n \in Dirs |-> Free],
     handles |-> {},
     uid |-> 0,
     proc |-> [p \in Procs |-> IdleProc]]

Init ==
    /\ cs = GenesisState(TRUE)
    /\ last = NoCall
    /\ run = Idle
    /\ fs = EmptyTree

\* Both builds: with and without build.DEBUG.
InitBuilds ==
    /\ \E debug \in BOOLEAN : cs = GenesisState(debug)
    /\ last = NoCall
    /\ run = Idle
    /\ fs = EmptyTree

\* -------------------------------------------------------------- actions
\* The consensus set at the start of a handler.
Start(c) == [c EXCEPT !.committed = <<>>]

Admissible(parent, txns) ==
    /\ ~Panicked(cs)
    /\ Len(parent) < MaxHeight
    /\ Len(parent) >= Height(cs) - 1 \/ ~OnPath(cs, parent)
    /\ Extra(cs) + (IF parent = currentBlockID(cs) THEN 0 ELSE 1) <= MaxExtra
    /\ TxnCount(cs) + Len(txns) <= MaxTxns
    /\ \A b \in DOMAIN cs.blockMap :
          cs.blockMap[b].Parent = parent /\ b # GenesisID
              => cs.blockMap[b].Transactions # txns

\* accept_block: the block is put into the block map; a block that makes a
\* chain longer than the current one becomes the tip, through a reorg when its
\* parent is not the tip.
AcceptBlock(parent, txns) ==
    /\ UNCHANGED <<run, fs>>
    /\ Admissible(parent, txns)
    /\ LET id == ChildID(cs, parent)
           pb == newChild(id, parent, Len(parent) + 1, txns)
           c1 == [Start(cs) EXCEPT !.blockMap = Put(@, id, pb)]
       IN  IF pb.Height <= Height(cs)
           THEN /\ cs' = c1
                /\ last' = [op |-> "store", id |-> id, err |-> "NonExtendingBlock",
                            legal |-> TRUE]
           ELSE LET r == forkBlockchain(c1, id)
                IN  /\ cs' = Start(r.cs)
                    /\ last' = [op |-> IF parent = currentBlockID(cs)
                                       THEN "generate" ELSE "fork",
                                id |-> id, err |-> r.err, legal |-> TRUE]

Next ==
    \E parent \in DOMAIN cs.blockMap :
        \E txns \in CandidateTransactions(cs) : AcceptBlock(parent, txns)

Spec == Init /\ [][Next]_vars

\* ------------------------------------------- the functions called directly
\* The documented preconditions of commitDiffSet and generateAndApplyDiff.
LegalCommit(c, pb, dir) ==
    /\ pb.DiffsGenerated
    /\ IF dir = DiffApply THEN pb.Parent = currentBlockID(c)
       ELSE pb.ID = currentBlockID(c)

LegalGenerate(c, pb) == ~pb.DiffsGenerated /\ pb.Parent = currentBlockID(c)

\* A call that breaks a precondition is the last call of a run.
CanCall == ~Panicked(cs) /\ last.legal

\* generateAndApplyDiff on a new block, whose parent need not be the tip, while
\* every block of the block map is on the current path.
GenerateBlock(parent, txns) ==
    /\ UNCHANGED <<run, fs>>
    /\ CanCall
    /\ Cardinality(DOMAIN cs.blockMap) = Len(cs.path)
    /\ Admissible(parent, txns)
    /\ parent = currentBlockID(cs) \/ txns = <<>>
    /\ LET id == ChildID(cs, parent)
           pb == newChild(id, parent, Len(parent) + 1, txns)
           r == generateAndApplyDiff(
                    [Start(cs) EXCEPT !.blockMap = Put(@, id, pb)], pb, "none")
       IN  /\ cs' = Start(r.cs)
           /\ last' = [op |-> "generateAndApplyDiff", id |-> id, err |-> r.err,
                       pb |-> pb, legal |-> LegalGenerate(cs, pb)]

\* generateAndApplyDiff on a block of the block map.
CallGenerateAndApplyDiff(b) ==
    /\ UNCHANGED <<run, fs>>
    /\ CanCall
    /\ b # GenesisID
    /\ LET r == generateAndApplyDiff(Start(cs), cs.blockMap[b], "none")
       IN  /\ cs' = Start(r.cs)
           /\ last' = [op |-> "generateAndApplyDiff", id |-> b, err |-> r.err,
                       pb |-> cs.blockMap[b],
                       legal |-> LegalGenerate(cs, cs.blockMap[b])]

\* The blocks commitDiffSet is called on: the blocks of the block map and a
\* new child of the tip that has not been processed.
UnprocessedChild(c) ==
    newChild(ChildID(c, currentBlockID(c)), currentBlockID(c), Height(c) + 1, <<>>)

Callable(c) ==
    {c.blockMap[b] : b \in (DOMAIN c.blockMap) \ {GenesisID}}
        \cup {UnprocessedChild(c)}

CallCommitDiffSet(pb, dir) ==
    /\ UNCHANGED <<run, fs>>
    /\ CanCall
    /\ cs' = commitDiffSet(Start(cs), pb, dir)
    /\ last' = [op |-> "commitDiffSet", id |-> pb.ID, err |-> NoError, dir |-> dir,
                pb |-> pb, legal |-> LegalCommit(cs, pb, dir)]

\* One of the four commit functions of a table, on a diff of the tip block or
\* on that diff with the other direction tag, with either value of the
\* updateDatabase flag.
OtherDirection(dir) == IF dir = DiffApply THEN DiffRevert ELSE DiffApply

TableLists == {"SiacoinOutputDiffs", "FileContractDiffs", "SiafundOutputDiffs",
               "DelayedSiacoinOutputDiffs"}

CallCommitDiff(b, list, i, flip, dir, upd) ==
    /\ UNCHANGED <<run, fs>>
    /\ CanCall
    /\ b = currentBlockID(cs)
    /\ i \in 1..Len(cs.blockMap[b][list])
    /\ LET d0 == cs.blockMap[b][list][i]
           d == IF flip THEN [d0 EXCEPT !.Direction = OtherDirection(@)] ELSE d0
           pb == [cs.blockMap[b] EXCEPT ![list] = <<d>>]
       IN  /\ cs' = commitOneDiff([Start(cs) EXCEPT !.updateDatabase = upd], pb,
                                  [list |-> list, index |-> 1], dir)
           /\ last' = [op |-> "commitDiff", id |-> b, err |-> NoError, dir |-> dir,
                       list |-> list, diff |-> d, legal |-> FALSE]

NextCalls ==
    \/ \E parent \in DOMAIN cs.blockMap :
          \E txns \in CandidateTransactions(cs) : GenerateBlock(parent, txns)
    \/ \E b \in DOMAIN cs.blockMap : CallGenerateAndApplyDiff(b)
    \/ \E pb \in Callable(cs) : \E dir \in Directions : CallCommitDiffSet(pb, dir)

SpecCalls == InitBuilds /\ [][NextCalls]_vars

\* The chain grows at its tip, and single diffs are committed.
ExtendTip(txns) == GenerateBlock(currentBlockID(cs), txns)

NextDiffs ==
    \/ \E txns \in CandidateTransactions(cs) : ExtendTip(txns)
    \/ \E b \in DOMAIN cs.blockMap : \E list \in TableLists :
          \E i \in 1..Len(cs.blockMap[b][list]) : \E flip \in BOOLEAN :
             \E dir \in Directions : \E upd \in BOOLEAN :
                CallCommitDiff(b, list, i, flip, dir, upd)

SpecDiffs == InitBuilds /\ [][NextDiffs]_vars

\* The chain grows at its tip, its blocks are reverted and applied again, and
\* deleteObsoleteDelayedOutputMaps is called on a block of the block map in
\* either direction, with either value of the updateDatabase flag.
CommitTip(pb, dir) == LegalCommit(cs, pb, dir) /\ CallCommitDiffSet(pb, dir)

CallDeleteObsoleteDelayedOutputMaps(b, dir, upd) ==
    /\ UNCHANGED <<run, fs>>
    /\ CanCall
    /\ cs' = deleteObsoleteDelayedOutputMaps(
                 [Start(cs) EXCEPT !.updateDatabase = upd], cs.blockMap[b], dir)
    /\ last' = [op |-> "deleteObsoleteDelayedOutputMaps", id |-> b, err |-> NoError,
                dir |-> dir, pb |-> cs.blockMap[b], legal |-> FALSE]

NextMaps ==
    \/ \E txns \in CandidateTransactions(cs) : ExtendTip(txns)
    \/ \E b \in (DOMAIN cs.blockMap) \ {GenesisID} :
          \E dir \in Directions : CommitTip(cs.blockMap[b], dir)
    \/ \E b \in DOMAIN cs.blockMap : \E dir \in Directions : \E upd \in BOOLEAN :
          CallDeleteObsoleteDelayedOutputMaps(b, dir, upd)

SpecMaps == InitBuilds /\ [][NextMaps]_vars

\* The chain grows at its tip, and commitSiafundPoolDiff is called on a pool
\* diff with any tag and any two pool values, in either direction.
MaxPool == MaxTxns * Tax(Coinbase)

PoolDiffs == [Direction : Directions, Previous : 0..MaxPool, Adjusted : 0..MaxPool]

CallCommitSiafundPoolDiff(sfpd, dir) ==
    /\ UNCHANGED <<run, fs>>
    /\ CanCall
    /\ cs' = commitSiafundPoolDiff(Start(cs), sfpd, dir)
    /\ last' = [op |-> "commitSiafundPoolDiff", id |-> currentBlockID(cs),
                err |-> NoError, dir |-> dir, diff |-> sfpd, legal |-> FALSE]

NextPool ==
    \/ \E txns \in CandidateTransactions(cs) : ExtendTip(txns)
    \/ \E sfpd \in PoolDiffs : \E dir \in Directions :
          CallCommitSiafundPoolDiff(sfpd, dir)

SpecPool == InitBuilds /\ [][NextPool]_vars

\* ------------------------------------------------- the consensus lock
\* One writer at a time holds the consensus lock.  Under the lock it runs
\* generateAndApplyDiff on a new child of the tip or commitDiffSet with
\* Revert on the tip, one step of the function at a time, and it may run
\* several calls (a reorg) before it gives the lock back.  A writer starts a
\* call when the lock is free, and takes it, or when it holds the lock and
\* its last call has returned.
CanWrite(r) == r.pc \in {"idle", "done"} /\ (r.pc = "idle") = (r.lock = "free")

BeginGenerate(txns) ==
    /\ CanWrite(run) /\ ~Panicked(cs)
    /\ Admissible(currentBlockID(cs), txns)
    /\ cs' = [Start(cs) EXCEPT !.blockMap =
                  Put(@, ChildID(cs, currentBlockID(cs)),
                      newChild(ChildID(cs, currentBlockID(cs)), currentBlockID(cs),
                               Height(cs) + 1, txns))]
    /\ run' = [run EXCEPT !.lock = "writer", !.pc = "generateAndApplyDiff",
                          !.pb = newChild(ChildID(cs, currentBlockID(cs)),
                                          currentBlockID(cs), Height(cs) + 1, txns),
                          !.dir = DiffApply, !.err = NoError, !.todo = txns]
    /\ UNCHANGED <<last, fs>>

\* The writer's position in generateAndApplyDiff as the record the steps of
\* the function work on.
WriterState == [cs |-> cs, pb |-> run.pb, err |-> run.err]

\* After one turn of the loop over the transactions.
LoopTurn(st) ==
    /\ cs' = st.cs
    /\ run' = [run EXCEPT !.pb = st.pb, !.err = st.err, !.todo = Tail(@)]
    /\ UNCHANGED <<last, fs>>

\* The block is committed or rejected: a committed block is a change that
\* the subscribers are told of.
\* A writer that tells the subscribers of every block it has generated.
changedAlways(r, err) == Append(r.changes, r.pb.ID)

changed(r, err) == IF err = NoError THEN Append(r.changes, r.pb.ID) ELSE r.changes

GenerateReturns(r) ==
    /\ cs' = Start(r.cs)
    /\ run' = [run EXCEPT !.pc = "done", !.err = r.err,
                          !.changes = changed(run, r.err)]
    /\ last' = [op |-> "generateAndApplyDiff", id |-> run.pb.ID, err |-> r.err,
                pb |-> newChild(run.pb.ID, run.pb.Parent, run.pb.Height,
                                run.pb.Transactions),
                legal |-> TRUE]
    /\ UNCHANGED fs

StepGenerate ==
    /\ run.lock = "writer" /\ ~Panicked(cs)
    /\ run.pc \in {"generateAndApplyDiff", "transactions"}
    /\ IF run.pc = "generateAndApplyDiff"
       THEN /\ cs' = addDelayedSiacoinOutputs(
                         [pushPath(generateSanity(cs, run.pb), run.pb.ID)
                             EXCEPT !.blocksLoaded = @ + 1],
                         run.pb.Height + MaturityDelay)
            /\ run' = [run EXCEPT !.pc = "transactions", !.pb.DiffsGenerated = TRUE]
            /\ UNCHANGED <<last, fs>>
       ELSE IF run.todo # <<>> /\ run.err = NoError
            THEN LoopTurn(applyTransactions(WriterState, <<Head(run.todo)>>))
            ELSE GenerateReturns(maintainAndStore(WriterState, "none"))

BeginRevert ==
    /\ CanWrite(run) /\ ~Panicked(cs)
    /\ Len(cs.path) > 1
    /\ Extra(cs) = 0
    /\ cs' = Start(cs)
    /\ run' = [run EXCEPT !.lock = "writer", !.pc = "commitDiffSetSanity",
                          !.pb = currentProcessedBlock(cs),
                          !.dir = DiffRevert, !.err = NoError, !.todo = <<>>]
    /\ UNCHANGED <<last, fs>>

\* The five calls of commitDiffSet, one at a time.
StepCommitDiffSet ==
    /\ run.lock = "writer" /\ ~Panicked(cs)
    /\ run.pc \in {"commitDiffSetSanity", "createUpcomingDelayedOutputMaps",
                    "commitNodeDiffs", "deleteObsoleteDelayedOutputMaps",
                    "updateCurrentPath"}
    /\ CASE run.pc = "commitDiffSetSanity" ->
               /\ cs' = commitDiffSetSanity(cs, run.pb, run.dir)
               /\ run' = [run EXCEPT !.pc = "createUpcomingDelayedOutputMaps"]
               /\ UNCHANGED <<last, fs>>
         [] run.pc = "createUpcomingDelayedOutputMaps" ->
               /\ cs' = createUpcomingDelayedOutputMaps(cs, run.pb, run.dir)
               /\ run' = [run EXCEPT !.pc = "commitNodeDiffs"]
               /\ UNCHANGED <<last, fs>>
         [] run.pc = "commitNodeDiffs" ->
               /\ cs' = commitNodeDiffs(cs, run.pb, run.dir)
               /\ run' = [run EXCEPT !.pc = "deleteObsoleteDelayedOutputMaps"]
               /\ UNCHANGED <<last, fs>>
         [] run.pc = "deleteObsoleteDelayedOutputMaps" ->
               /\ cs' = deleteObsoleteDelayedOutputMaps(cs, run.pb, run.dir)
               /\ run' = [run EXCEPT !.pc = "updateCurrentPath"]
               /\ UNCHANGED <<last, fs>>
         [] run.pc = "updateCurrentPath" ->
               /\ cs' = Start(updateCurrentPath(cs, run.pb, run.dir))
               /\ run' = [run EXCEPT !.pc = "done"]
               /\ last' = [op |-> "commitDiffSet", id |-> run.pb.ID,
                           err |-> NoError, dir |-> run.dir, pb |-> run.pb,
                           legal |-> TRUE]
               /\ UNCHANGED fs

\* The changes made under the lock are sent to the subscriber when the
\* lock is given back.
notify(r) == r.queue \o r.changes

ReleaseLock ==
    /\ run.lock = "writer" /\ run.pc = "done" /\ ~Panicked(cs)
    /\ run' = [run EXCEPT !.lock = "free", !.pc = "idle",
                          !.boundary = Snapshot(cs),
                          !.queue = notify(run), !.changes = <<>>]
    /\ UNCHANGED <<cs, last, fs>>

Writer ==
    \/ \E txns \in CandidateTransactions(cs) : BeginGenerate(txns)
    \/ StepGenerate
    \/ BeginRevert
    \/ StepCommitDiffSet
    \/ ReleaseLock

\* A reader that does not wait for the lock.
CanReadAnytime(r) == TRUE

\* A reader takes its snapshot when no writer holds the lock.
CanRead(r) == r.lock = "free"

Read ==
    /\ CanRead(run)
    /\ run' = [run EXCEPT !.seen = Snapshot(cs), !.seenBoundary = run.boundary]
    /\ UNCHANGED <<cs, last, fs>>

NextLock == Writer \/ Read

SpecLock == InitBuilds /\ [][NextLock]_vars

\* The subscriber receives the notifications in the order they were sent.
Deliver ==
    /\ run.queue # <<>>
    /\ run' = [run EXCEPT !.queue = Tail(@),
                          !.delivered = Append(@, Head(run.queue))]
    /\ UNCHANGED <<cs, last, fs>>

NextNotify == Writer \/ Deliver

SpecNotify == InitBuilds /\ [][NextNotify]_vars

\* The chain grows at its tip while the database may return a storage error
\* from pushPath, rmBlockMap or addBlockMap; a storage error is fatal, the
\* call that returns one is the last call of a run.
StorageError == "storage"

StorageFailures == {"pushPath", "rmBlockMap", "addBlockMap"}

ExtendTipFailing(txns, fail) ==
    /\ UNCHANGED <<run, fs>>
    /\ CanCall
    /\ last.err # StorageError
    /\ Cardinality(DOMAIN cs.blockMap) = Len(cs.path)
    /\ Admissible(currentBlockID(cs), txns)
    /\ LET id == ChildID(cs, currentBlockID(cs))
           pb == newChild(id, currentBlockID(cs), Height(cs) + 1, txns)
           r == generateAndApplyDiff(
                    [Start(cs) EXCEPT !.blockMap = Put(@, id, pb)], pb, fail)
       IN  /\ cs' = Start(r.cs)
           /\ last' = [op |-> "generateAndApplyDiff", id |-> id, err |-> r.err,
                       pb |-> pb, legal |-> TRUE, fail |-> fail]

NextStore ==
    \/ \E txns \in CandidateTransactions(cs) : ExtendTipFailing(txns, "none")
    \/ \E txns \in CandidateTransactions(cs) : \E fail \in StorageFailures :
          ExtendTipFailing(txns, fail)

SpecStore == InitBuilds /\ [][NextStore]_vars

\* The chain grows at its tip, and commitFileContractDiff is called on a file
\* contract diff of a contract of the table or of a new contract, with any
\* window end, in either direction, with either value of the updateDatabase
\* flag.
NewContractID == FileContractID(GenesisID)

ContractDiffs(c) ==
    [Direction : Directions,
     ID : (DOMAIN c.fc) \cup {NewContractID},
     FileContract : [WindowEnd : 1..(MaxHeight + 1), Payout : {Coinbase}]]

CallCommitFileContractDiff(fcd, dir, upd) ==
    /\ UNCHANGED <<run, fs>>
    /\ CanCall
    /\ cs' = commitFileContractDiff([Start(cs) EXCEPT !.updateDatabase = upd],
                                    fcd, dir)
    /\ last' = [op |-> "commitFileContractDiff", id |-> currentBlockID(cs),
                err |-> NoError, dir |-> dir, diff |-> fcd, legal |-> FALSE]

NextContracts ==
    \/ \E txns \in CandidateTransactions(cs) : ExtendTip(txns)
    \/ \E fcd \in ContractDiffs(cs) : \E dir \in Directions : \E upd \in BOOLEAN :
          CallCommitFileContractDiff(fcd, dir, upd)

SpecContracts == InitBuilds /\ [][NextContracts]_vars

\* The chain grows at its tip, its blocks are reverted and applied again, and
\* commitDiffSet is called once without the updateDatabase flag, on the tip
\* in the Revert direction or on a reverted child of the tip in the Apply
\* direction.
CommitTipWithoutUpdate(pb, dir) ==
    /\ UNCHANGED <<run, fs>>
    /\ CanCall
    /\ cs.updateDatabase
    /\ LegalCommit(cs, pb, dir)
    /\ cs' = commitDiffSet([Start(cs) EXCEPT !.updateDatabase = FALSE], pb, dir)
    /\ last' = [op |-> "commitDiffSet", id |-> pb.ID, err |-> NoError, dir |-> dir,
                pb |-> pb, legal |-> TRUE]

NextFlag ==
    \/ cs.updateDatabase /\ \E txns \in CandidateTransactions(cs) : ExtendTip(txns)
    \/ cs.updateDatabase
          /\ \E b \in (DOMAIN cs.blockMap) \ {GenesisID} :
                \E dir \in Directions : CommitTip(cs.blockMap[b], dir)
    \/ \E b \in (DOMAIN cs.blockMap) \ {GenesisID} :
          \E dir \in Directions : CommitTipWithoutUpdate(cs.blockMap[b], dir)

SpecFlag == InitBuilds /\ [][NextFlag]_vars

\* ------------------------------------------------ the DNodes of the tree
\* The handles that the threads hold when the calls start: at most
\* MaxHandles copies of the directories d and e, each with its owner and its
\* SiaDir not loaded yet.  A directory is in the map of its parent when a
\* thread holds a copy of it or one of its children is in its map.
MaxHandles == 2

HandleSets ==
    UNION {[1..k -> [node : Dirs \ {RootDir}, owner : Procs]] : k \in 0..MaxHandles}

Held(hs, n) == {i \in DOMAIN hs : hs[i].node = n}

InTree(hs, n) ==
    \/ Held(hs, n) # {}
    \/ \E c \in DiskDirs(n) : Held(hs, c) # {}

TreeOf(hs) ==
    [EmptyTree EXCEPT
        !.threads = [n \in Dirs |-> Held(hs, n)],
        !.directories = [n \in Dirs |-> {c \in DiskDirs(n) : InTree(hs, c)}],
        !.handles = {[uid |-> i, node |-> hs[i].node, loaded |-> FALSE,
                      owner |-> hs[i].owner, open |-> TRUE] : i \in DOMAIN hs},
        !.uid = Len(hs)]

InitTree ==
    /\ cs = GenesisState(TRUE)
    /\ last = NoCall
    /\ run = Idle
    /\ \E hs \in HandleSets : fs = TreeOf(hs)

HandleOf(f, u) == CHOOSE x \in f.handles : x.uid = u

\* Whether the SiaDir of a struct is loaded: the struct of the tree, which
\* openDir makes with a nil SiaDir, or a copy of it.
SiaDirOf(f, u) == IF u = NoHandle THEN FALSE ELSE HandleOf(f, u).loaded

SetHandle(f, u, x) == [f EXCEPT !.handles = (@ \ {HandleOf(f, u)}) \cup {x}]

Return(f, p) == [f EXCEPT !.proc[p] = IdleProc]

\* node._close: the thread of the copy leaves the threads map of the node.
closeNode(f, n, u) == [f EXCEPT !.threads[n] = @ \ {u}]

\* DNode.close: the SiaDir of the copy is cleared when no thread is left.
close(f, n, u) ==
    SetHandle(closeNode(f, n, u), u,
              [HandleOf(f, u) EXCEPT
                  !.open = FALSE,
                  !.loaded = IF closeNode(f, n, u).threads[n] = {} THEN FALSE ELSE @])

\* The test of Close that ignores the threads of the node.
removeFromParentUnused(f, n) ==
    /\ staticParent(n) # NoDir
    /\ Cardinality(f.directories[n]) + Cardinality(f.files[n]) = 0

\* The test of Close: the node has a parent and no thread, directory or file.
removeFromParent(f, n) ==
    /\ staticParent(n) # NoDir
    /\ Cardinality(f.threads[n]) + Cardinality(f.directories[n])
          + Cardinality(f.files[n]) = 0

\* A thread calls Close on a copy that it holds.
CallClose(p, u) ==
    /\ fs.proc[p].pc = "idle"
    /\ \E x \in fs.handles : x.uid = u /\ x.owner = p /\ x.open
    /\ fs' = [fs EXCEPT !.proc[p] = [IdleProc EXCEPT !.pc = "Close", !.op = "Close",
                                        !.node = HandleOf(fs, u).node, !.h = u]]
    /\ UNCHANGED <<cs, last, run>>

\* Close from its Lock to its Unlock: the mutex of the node is free.
Close(p) ==
    /\ fs.proc[p].pc = "Close"
    /\ fs.mu[fs.proc[p].node] = Free
    /\ LET n == fs.proc[p].node
           f1 == close(fs, n, fs.proc[p].h)
       IN  fs' = IF removeFromParent(f1, n)
                 THEN [f1 EXCEPT !.proc[p].pc = "managedRemoveDir",
                                 !.proc[p].node = staticParent(n),
                                 !.proc[p].child = n]
                 ELSE Return(f1, p)
    /\ UNCHANGED <<cs, last, run>>

\* managedRemoveDir from its Lock to its Unlock: the child leaves the map of
\* the node when it is in it and its SiaDir is the one of the struct in the
\* map; a node left without threads and children is removed from its own
\* parent next, as the struct that its children name as their parent.
managedRemoveDir(p) ==
    /\ fs.proc[p].pc = "managedRemoveDir"
    /\ fs.mu[fs.proc[p].node] = Free
    /\ LET n == fs.proc[p].node
           child == fs.proc[p].child
           f1 == [fs EXCEPT !.directories[n] = @ \ {child}]
       IN  fs' = IF child \notin fs.directories[n]
                    \/ SiaDirOf(fs, fs.proc[p].h) # SiaDirOf(fs, NoHandle)
                 THEN Return(fs, p)
                 ELSE IF staticParent(n) # NoDir /\ f1.threads[n] = {}
                         /\ f1.files[n] = {} /\ f1.directories[n] = {}
                      THEN [f1 EXCEPT !.proc[p].node = staticParent(n),
                                      !.proc[p].child = n,
                                      !.proc[p].h = NoHandle]
                      ELSE Return(f1, p)
    /\ UNCHANGED <<cs, last, run>>

\* A thread calls managedCopy on a copy that it holds.
CallManagedCopy(p, u) ==
    /\ fs.proc[p].pc = "idle"
    /\ \E x \in fs.handles : x.uid = u /\ x.owner = p /\ x.open
    /\ fs' = [fs EXCEPT !.proc[p] = [IdleProc EXCEPT !.pc = "managedCopy",
                                        !.op = "managedCopy",
                                        !.node = HandleOf(fs, u).node, !.h = u]]
    /\ UNCHANGED <<cs, last, run>>

\* The new copy of a node: a new threadUID in the threads map of the node.
newCopy(f, p, n, u) ==
    [f EXCEPT !.uid = @ + 1,
              !.threads[n] = @ \cup {f.uid + 1},
              !.handles = @ \cup {[uid |-> f.uid + 1, node |-> n,
                                   loaded |-> SiaDirOf(f, u), owner |-> p,
                                   open |-> TRUE]}]

\* A Lock of managedCopy that succeeds, the mutex of the node being free: the
\* Lock at the start, after which the copy is made, or the deferred Lock at
\* the return, after which the copy is returned with the mutex held.  What
\* the callers do after managedCopy has returned is not modelled.
managedCopy(p) ==
    /\ fs.proc[p].pc \in {"managedCopy", "managedCopy.defer"}
    /\ fs.mu[fs.proc[p].node] = Free
    /\ fs' = IF fs.proc[p].pc = "managedCopy"
             THEN [newCopy(fs, p, fs.proc[p].node, fs.proc[p].h) EXCEPT
                      !.mu[fs.proc[p].node] = p,
                      !.proc[p].pc = "managedCopy.defer",
                      !.proc[p].h = fs.uid + 1]
             ELSE [fs EXCEPT !.mu[fs.proc[p].node] = p,
                             !.proc[p].pc = "managedCopy.returned"]
    /\ UNCHANGED <<cs, last, run>>

\* openDir, called with the mutex of the node held: the child is put into
\* the map of the node when it is not in it, and copied.
openDir(f, p, n, dirName) ==
    [f EXCEPT !.directories[n] = @ \cup {dirName},
              !.proc[p].pc = "managedCopy",
              !.proc[p].node = dirName,
              !.proc[p].child = n,
              !.proc[p].h = NoHandle]

\* The paths that managedOpenDir is called with, and the structs it is called
\* on: the root of the tree or a copy that the thread holds.
Paths == {<<"d">>, <<"d", "e">>, <<"e">>}

Openable(p) ==
    {[node |-> RootDir, h |-> NoHandle]}
        \cup {[node |-> x.node, h |-> x.uid] :
                 x \in {y \in fs.handles : y.owner = p /\ y.open}}

CallManagedOpenDir(p, on, path) ==
    /\ fs.proc[p].pc = "idle"
    /\ fs' = [fs EXCEPT !.proc[p] = [IdleProc EXCEPT !.pc = "managedOpenDir",
                                        !.op = "managedOpenDir",
                                        !.node = on.node, !.h = on.h,
                                        !.todo = path]]
    /\ UNCHANGED <<cs, last, run>>

\* managedOpenDir from its Lock to the managedCopy in openDir, with the mutex
\* of the node still held, or to its return when the sub-directory does not
\* exist.
managedOpenDir(p) ==
    /\ fs.proc[p].pc = "managedOpenDir"
    /\ fs.mu[fs.proc[p].node] = Free
    /\ LET n == fs.proc[p].node
           subDir == Head(fs.proc[p].todo)
       IN  fs' = IF subDir \notin fs.directories[n] \cup DiskDirs(n)
                 THEN Return(fs, p)
                 ELSE [openDir(fs, p, n, subDir) EXCEPT
                          !.mu[n] = p, !.proc[p].todo = Tail(@)]
    /\ UNCHANGED <<cs, last, run>>

\* The entries of a directory in the order of ioutil.ReadDir.
Entries(n) ==
    CASE n = RootDir -> <<[dir |-> TRUE, name |-> "d"]>>
      [] n = "d" -> <<[dir |-> TRUE, name |-> "e"]>>
      [] n = "e" -> <<[dir |-> FALSE, name |-> "f"], [dir |-> FALSE, name |-> "g"]>>

CallManagedList(p, on) ==
    /\ fs.proc[p].pc = "idle"
    /\ fs' = [fs EXCEPT !.proc[p] = [IdleProc EXCEPT !.pc = "managedList",
                                        !.op = "managedList",
                                        !.node = on.node, !.h = on.h,
                                        !.todo = Entries(on.node)]]
    /\ UNCHANGED <<cs, last, run>>

\* openFile, called with the mutex of the node held: the file is put into
\* the map of the node.
openFile(f, n, fileName) == [f EXCEPT !.files[n] = @ \cup {fileName}]

\* One turn of the loop of managedList: the return after the last entry;
\* for a directory, from the Lock to the managedCopy in openDir, with the
\* mutex of the node still held; for a file, from the Lock to the end of the
\* turn, where the mutex of the node is still held.
managedList(p) ==
    /\ fs.proc[p].pc = "managedList"
    /\ LET n == fs.proc[p].node
           todo == fs.proc[p].todo
       IN  IF todo = <<>> THEN fs' = Return(fs, p)
           ELSE /\ fs.mu[n] = Free
                /\ fs' = IF Head(todo).dir
                         THEN [openDir(fs, p, n, Head(todo).name) EXCEPT
                                  !.mu[n] = p, !.proc[p].todo = Tail(@)]
                         ELSE [openFile(fs, n, Head(todo).name) EXCEPT
                                  !.mu[n] = p, !.proc[p].todo = Tail(@)]
    /\ UNCHANGED <<cs, last, run>>

\* managedOpenFile on a copy that the thread holds, from its Lock to its
\* deferred Unlock.
managedOpenFile(p, u, fileName) ==
    /\ fs.proc[p].pc = "idle"
    /\ \E x \in fs.handles : x.uid = u /\ x.owner = p /\ x.open
    /\ fileName \in DiskFiles(HandleOf(fs, u).node)
    /\ fs.mu[HandleOf(fs, u).node] = Free
    /\ fs' = openFile(fs, HandleOf(fs, u).node, fileName)
    /\ UNCHANGED <<cs, last, run>>

\* managedRemoveFile from its Lock to its Unlock, called when the last copy
\* of a file of the map is closed.
managedRemoveFile(p, n, fileName) ==
    /\ fs.proc[p].pc = "idle"
    /\ fileName \in fs.files[n]
    /\ fs.mu[n] = Free
    /\ LET f1 == [fs EXCEPT !.files[n] = @ \ {fileName}]
       IN  fs' = IF staticParent(n) # NoDir /\ f1.threads[n] = {}
                    /\ f1.files[n] = {} /\ f1.directories[n] = {}
                 THEN [f1 EXCEPT !.proc[p] =
                          [IdleProc EXCEPT !.pc = "managedRemoveDir",
                                           !.op = "managedRemoveFile",
                                           !.node = staticParent(n),
                                           !.child = n]]
                 ELSE f1
    /\ UNCHANGED <<cs, last, run>>

\* The SiaDir of a copy is loaded when the thread that holds it needs it.
LoadSiaDir(p, u) ==
    /\ fs.proc[p].pc = "idle"
    /\ \E x \in fs.handles : x.uid = u /\ x.owner = p /\ x.open /\ ~x.loaded
    /\ fs' = SetHandle(fs, u, [HandleOf(fs, u) EXCEPT !.loaded = TRUE])
    /\ UNCHANGED <<cs, last, run>>

NextTree ==
    \E p \in Procs :
        \/ \E u \in 1..fs.uid : CallClose(p, u)
        \/ Close(p)
        \/ managedRemoveDir(p)
        \/ \E u \in 1..fs.uid : CallManagedCopy(p, u)
        \/ managedCopy(p)
        \/ \E on \in Openable(p) : \E path \in Paths : CallManagedOpenDir(p, on, path)
        \/ managedOpenDir(p)
        \/ \E on \in Openable(p) : CallManagedList(p, on)
        \/ managedList(p)
        \/ \E u \in 1..fs.uid : \E fileName \in FileNames :
              managedOpenFile(p, u, fileName)
        \/ \E n \in Dirs : \E fileName \in FileNames : managedRemoveFile(p, n, fileName)
        \/ \E u \in 1..fs.uid : LoadSiaDir(p, u)

SpecTree == InitTree /\ [][NextTree]_vars

\* ----------------------------------------------------------- properties
\* The tables of the consensus set: the current path, the five tables with
\* the buckets and the expiration sets that exist, and the siafund pool.
Tables(c) ==
    [path |-> c.path, sco |-> c.sco, sfo |-> c.sfo, fc |-> c.fc, dsco |-> c.dsco,
     fcExp |-> c.fcExp, siafundPool |-> c.siafundPool]

\* Every block of the block map is on the current path and no block has been
\* rejected: the blocks of the path have been applied one by one.
OnlyApplied(c) ==
    c.dosBlocks = {} /\ Cardinality(DOMAIN c.blockMap) = Len(c.path)

\* C1: after the blocks of a chain have been applied one by one, reverting
\* all of them, the tip first, leaves every table (the expiration sets that
\* exist included), the siafund pool and the current path as in the genesis
\* state.
C1_RevertAllRestoresGenesis ==
    (~Panicked(cs) /\ OnlyApplied(cs))
        => Tables(revertToNode(cs, GenesisID)) = Tables(GenesisState(cs.debug))

\* A call of generateAndApplyDiff that keeps the preconditions.
Generated(call) == call.op = "generateAndApplyDiff" /\ call.legal

\* C2: after generateAndApplyDiff on a block B in state S, reverting B with
\* commitDiffSet gives S back, and applying B's stored diffs again gives the
\* state right after the generation.
C2_GenerateRevertReapply ==
    [][(Generated(last') /\ last'.err = NoError /\ ~Panicked(cs'))
          => /\ Tables(commitDiffSet(cs', cs'.blockMap[last'.id], DiffRevert))
                    = Tables(cs)
             /\ Tables(commitDiffSet(
                           commitDiffSet(cs', cs'.blockMap[last'.id], DiffRevert),
                           cs'.blockMap[last'.id], DiffApply))
                    = Tables(cs')]_vars

\* C3: when a transaction of the block fails validation, generateAndApplyDiff
\* leaves the current path, the tables, the buckets that exist and the
\* siafund pool as they were before the call.
C3_FailedGenerateRestores ==
    [][(Generated(last') /\ last'.err # NoError) => Tables(cs') = Tables(cs)]_vars

\* The state of generateAndApplyDiff when it enters the loop over the
\* transactions, and the validation error of the first transaction that is
\* not valid after the ones before it have been applied.
EnterBlock(c, pb) ==
    [cs |-> addDelayedSiacoinOutputs(c, pb.Height + MaturityDelay), pb |-> pb,
     err |-> NoError]

RECURSIVE FirstError(_, _)
FirstError(st, txns) ==
    IF txns = <<>> THEN NoError
    ELSE IF validTransaction(st.cs, st.pb, Head(txns)) # NoError
         THEN validTransaction(st.cs, st.pb, Head(txns))
         ELSE FirstError(applyTransaction(st, Head(txns)), Tail(txns))

\* C4: generateAndApplyDiff returns the validation error of the first
\* transaction that fails, and then the block is in dosBlocks and not in the
\* block map; a block whose transactions are all valid is not put into
\* dosBlocks.
C4_RejectedBlockQuarantined ==
    [][(Generated(last') /\ ~Panicked(cs'))
          => /\ last'.err = FirstError(EnterBlock(cs, last'.pb),
                                       last'.pb.Transactions)
             /\ last'.err # NoError
                    => /\ last'.id \in cs'.dosBlocks
                       /\ last'.id \notin DOMAIN cs'.blockMap
             /\ last'.err = NoError => cs'.dosBlocks = cs.dosBlocks]_vars

C4_Witness ==
    /\ Generated(last) /\ ~Panicked(cs)
    /\ Len(last.pb.Transactions) = 2
    /\ last.err = "DoubleSpend"
    /\ last.id \in cs.dosBlocks

\* C5: a reorg in which a block of the new chain fails returns the error and
\* leaves the tip and every table as they were before the call.
C5_FailedReorgRestores ==
    [][(last'.op = "fork" /\ last'.err # NoError)
          => /\ currentBlockID(cs') = currentBlockID(cs)
             /\ Tables(cs') = Tables(cs)]_vars

\* The consensus set after the first n blocks of c's current path have been
\* applied to the genesis state, each by generateAndApplyDiff.
Unprocessed(b) == newChild(b.ID, b.Parent, b.Height, b.Transactions)

RECURSIVE AppliedFromGenesis(_, _)
AppliedFromGenesis(c, n) ==
    IF n <= 1 THEN GenesisState(c.debug)
    ELSE generateAndApplyDiff(AppliedFromGenesis(c, n - 1),
                              Unprocessed(c.blockMap[c.path[n]]), "none").cs

\* C6: after a reorg from a valid chain to another valid chain, every table
\* is as it is after the blocks of the new chain have been applied to the
\* genesis state.
C6_ReorgEquivalence ==
    (last.op = "fork" /\ last.err = NoError /\ ~Panicked(cs) /\ cs.dosBlocks = {})
        => Tables(cs) = Tables(AppliedFromGenesis(cs, Len(cs.path)))

\* The commits of one list: in the recorded order for Apply, in the reverse
\* of it for Revert.
ListCommits(pb, list, dir) ==
    IF dir = DiffApply
    THEN [i \in 1..Len(pb[list]) |-> [list |-> list, diff |-> pb[list][i]]]
    ELSE Reverse([i \in 1..Len(pb[list]) |-> [list |-> list, diff |-> pb[list][i]]])

ExpectedCommits(pb, dir) ==
    ListCommits(pb, "SiacoinOutputDiffs", dir)
        \o ListCommits(pb, "FileContractDiffs", dir)
        \o ListCommits(pb, "SiafundOutputDiffs", dir)
        \o ListCommits(pb, "DelayedSiacoinOutputDiffs", dir)
        \o ListCommits(pb, "SiafundPoolDiffs", dir)

\* C7: commitDiffSet commits the lists in the order siacoin outputs, file
\* contracts, siafund outputs, delayed siacoin outputs, siafund pool in both
\* directions, and the diffs of a list in the recorded order for Apply and in
\* the reverse order for Revert.
C7_CommitOrder ==
    [][last'.op = "commitDiffSet"
          => /\ IsPrefix(cs'.committed, ExpectedCommits(last'.pb, last'.dir))
             /\ ~Panicked(cs')
                    => cs'.committed = ExpectedCommits(last'.pb, last'.dir)]_vars

C7_Witness ==
    /\ last.op = "commitDiffSet" /\ last.dir = DiffRevert /\ ~Panicked(cs)
    /\ Len(last.pb.SiacoinOutputDiffs) >= 2
    /\ Len(last.pb.DelayedSiacoinOutputDiffs) >= 2
    /\ Len(cs.committed) >= 4

\* The table of the list holds the diff's entry, or an entry with its id.
HasEntry(c, list, d) ==
    CASE list = "SiacoinOutputDiffs" ->
            d.ID \in DOMAIN c.sco /\ c.sco[d.ID] = d.SiacoinOutput
      [] list = "FileContractDiffs" ->
            d.ID \in DOMAIN c.fc /\ c.fc[d.ID] = d.FileContract
      [] list = "SiafundOutputDiffs" ->
            d.ID \in DOMAIN c.sfo /\ c.sfo[d.ID] = d.SiafundOutput
      [] list = "DelayedSiacoinOutputDiffs" ->
            /\ d.MaturityHeight \in DOMAIN c.dsco
            /\ d.ID \in DOMAIN c.dsco[d.MaturityHeight]
            /\ c.dsco[d.MaturityHeight][d.ID] = d.SiacoinOutput

HasID(c, list, d) ==
    CASE list = "SiacoinOutputDiffs" -> d.ID \in DOMAIN c.sco
      [] list = "FileContractDiffs" -> d.ID \in DOMAIN c.fc
      [] list = "SiafundOutputDiffs" -> d.ID \in DOMAIN c.sfo
      [] list = "DelayedSiacoinOutputDiffs" ->
            /\ d.MaturityHeight \in DOMAIN c.dsco
            /\ d.ID \in DOMAIN c.dsco[d.MaturityHeight]

InsertedOrDeleted(c, call) ==
    IF call.diff.Direction = call.dir
    THEN HasEntry(c, call.list, call.diff)
    ELSE ~HasID(c, call.list, call.diff)

WrongTip(c, pb, dir) ==
    IF dir = DiffApply THEN pb.Parent # currentBlockID(c)
    ELSE pb.ID # currentBlockID(c)

WrongTipError(dir) ==
    IF dir = DiffApply THEN "errWrongAppliedDiffSet" ELSE "errWrongRevertDiffSet"

\* The call has failed with the sanity failure e and has changed nothing.
RejectedWith(e) ==
    /\ cs'.panic = e
    /\ Tables(cs') = Tables(cs)
    /\ cs'.blocksLoaded = cs.blocksLoaded
    /\ cs'.committed = <<>>

\* C9, as stated: a call of commitDiffSet whose block does not fit the
\* current block fails with errWrongAppliedDiffSet or errWrongRevertDiffSet
\* before anything is modified.
C9_AsStated ==
    [][(last'.op = "commitDiffSet" /\ WrongTip(cs, last'.pb, last'.dir))
          => RejectedWith(WrongTipError(last'.dir))]_vars

\* C9: in a build with build.DEBUG, commitDiffSet goes through only when the
\* block fits the current block, and a call on a block with generated diffs
\* that does not fit fails with errWrongAppliedDiffSet or
\* errWrongRevertDiffSet before anything is modified.
C9_TipSanity ==
    [][(last'.op = "commitDiffSet" /\ cs.debug)
          => /\ ~Panicked(cs') => ~WrongTip(cs, last'.pb, last'.dir)
             /\ (last'.pb.DiffsGenerated /\ WrongTip(cs, last'.pb, last'.dir))
                    => RejectedWith(WrongTipError(last'.dir))]_vars

C9_Witness ==
    /\ last.op = "commitDiffSet" /\ cs.debug /\ last.pb.DiffsGenerated
    /\ last.dir = DiffRevert
    /\ cs.panic = "errWrongRevertDiffSet"

\* What the sanity checks of the two functions owe to a call.
SanityOutcome ==
    /\ (last'.op = "generateAndApplyDiff" /\ last'.pb.DiffsGenerated)
           => RejectedWith("errRegenerateDiffs")
    /\ (last'.op = "generateAndApplyDiff" /\ ~last'.pb.DiffsGenerated
            /\ last'.pb.Parent # currentBlockID(cs))
           => RejectedWith("errInvalidSuccessor")
    /\ (last'.op = "commitDiffSet" /\ ~last'.pb.DiffsGenerated)
           => RejectedWith("errDiffsNotGenerated")

\* C10, as stated: generateAndApplyDiff fails with errRegenerateDiffs on a
\* block whose diffs are generated and with errInvalidSuccessor on a block
\* whose parent is not the current block, before the path is pushed or a
\* bucket is made; commitDiffSet fails with errDiffsNotGenerated on a block
\* whose diffs are not generated.
C10_AsStated == [][SanityOutcome]_vars

\* C10: in a build with build.DEBUG, generateAndApplyDiff fails with
\* errRegenerateDiffs on a block whose diffs are generated and with
\* errInvalidSuccessor on a block whose parent is not the current block,
\* before the path is pushed or a bucket is made, and commitDiffSet fails with
\* errDiffsNotGenerated on a block whose diffs are not generated.
C10_GenerateSanity == [][cs.debug => SanityOutcome]_vars

C10_Witness ==
    /\ last.op = "generateAndApplyDiff" /\ cs.debug
    /\ ~last.pb.DiffsGenerated
    /\ cs.panic = "errInvalidSuccessor"

\* The commit asks for an insert of an id the table holds, or for a delete of
\* an id it does not hold.
OutputLists == {"SiacoinOutputDiffs", "SiafundOutputDiffs"}

RogueCommit(c, call) ==
    /\ call.op = "commitDiff"
    /\ call.list \in OutputLists
    /\ (call.diff.Direction = call.dir) = HasID(c, call.list, call.diff)

RogueError(list) ==
    IF list = "SiacoinOutputDiffs" THEN "errBadCommitSiacoinOutputDiff"
    ELSE "errBadCommitSiafundOutputDiff"

RogueRejected ==
    /\ cs'.panic = RogueError(last'.list)
    /\ cs'.sco = cs.sco
    /\ cs'.sfo = cs.sfo

\* C11, as stated: committing a siacoin output diff or a siafund output diff as
\* an insert of an id that is present, or as a delete of an id that is not,
\* fails with errBadCommitSiacoinOutputDiff or errBadCommitSiafundOutputDiff
\* and leaves the table unchanged.
C11_AsStated == [][RogueCommit(cs, last') => RogueRejected]_vars

\* C11: in a build with build.DEBUG and with updateDatabase set, committing a
\* siacoin output diff or a siafund output diff as an insert of an id that is
\* present, or as a delete of an id that is not, fails with
\* errBadCommitSiacoinOutputDiff or errBadCommitSiafundOutputDiff and leaves
\* the table unchanged.
C11_RogueOutputDiff ==
    [][(RogueCommit(cs, last') /\ cs.debug /\ cs'.updateDatabase)
          => RogueRejected]_vars

C11_Witness ==
    /\ last.op = "commitDiff" /\ cs.debug /\ cs.updateDatabase
    /\ last.list = "SiacoinOutputDiffs"
    /\ last.diff.Direction # last.dir
    /\ cs.panic = "errBadCommitSiacoinOutputDiff"

\* The commit is of a delayed siacoin output diff whose maturity height has
\* no bucket.
NoBucketCommit(c, call) ==
    /\ call.op = "commitDiff"
    /\ call.list = "DelayedSiacoinOutputDiffs"
    /\ ~inDelayedSiacoinOutputs(c, call.diff.MaturityHeight)

NoBucketRejected ==
    /\ cs'.panic = "errBadMaturityHeight"
    /\ cs'.dsco = cs.dsco

\* C12, as stated: committing a delayed siacoin output diff whose maturity
\* height has no bucket fails with errBadMaturityHeight in both directions,
\* and no delayed output is inserted or removed.
C12_AsStated == [][NoBucketCommit(cs, last') => NoBucketRejected]_vars

\* C12: in a build with build.DEBUG and with updateDatabase set, committing a
\* delayed siacoin output diff whose maturity height has no bucket fails with
\* errBadMaturityHeight in both directions, and no delayed output is inserted
\* or removed.
C12_MissingBucket ==
    [][(NoBucketCommit(cs, last') /\ cs.debug /\ cs'.updateDatabase)
          => NoBucketRejected]_vars

C12_Witness ==
    /\ last.op = "commitDiff" /\ cs.debug /\ cs.updateDatabase
    /\ last.list = "DelayedSiacoinOutputDiffs"
    /\ last.diff.Direction = last.dir
    /\ cs.panic = "errBadMaturityHeight"

\* Every delayed siacoin output diff of the block targets a bucket of c.
BucketsReady(c, pb) ==
    \A i \in 1..Len(pb.DelayedSiacoinOutputDiffs) :
        inDelayedSiacoinOutputs(c, pb.DelayedSiacoinOutputDiffs[i].MaturityHeight)

\* The bucket that createUpcomingDelayedOutputMaps owes to the direction.
UpcomingBucketMade(c, pb, dir) ==
    IF dir = DiffApply THEN inDelayedSiacoinOutputs(c, pb.Height + MaturityDelay)
    ELSE pb.Height > MaturityDelay => inDelayedSiacoinOutputs(c, pb.Height)

\* C13: in commitDiffSet the buckets that the block's delayed siacoin output
\* diffs target exist once createUpcomingDelayedOutputMaps has run (the bucket
\* of height + MaturityDelay is made on Apply, the bucket of the block's
\* height on Revert), before any diff is committed; in generateAndApplyDiff
\* they exist once the bucket of height + MaturityDelay has been made, before
\* the first transaction; so no delayed output is ever put outside a bucket
\* and the calls do not fail.
C13_BucketBeforeOutputs ==
    [][/\ (last'.op = "commitDiffSet" /\ last'.legal)
             => /\ UpcomingBucketMade(
                       createUpcomingDelayedOutputMaps(cs, last'.pb, last'.dir),
                       last'.pb, last'.dir)
                /\ BucketsReady(
                       createUpcomingDelayedOutputMaps(cs, last'.pb, last'.dir),
                       last'.pb)
                /\ ~Panicked(cs')
       /\ (Generated(last') /\ last'.err = NoError)
             => /\ BucketsReady(EnterBlock(cs, last'.pb).cs, cs'.blockMap[last'.id])
                /\ ~Panicked(cs')]_vars

C13_Witness ==
    /\ last.op = "commitDiffSet" /\ last.legal /\ ~Panicked(cs)
    /\ last.dir = DiffRevert
    /\ last.pb.Height > MaturityDelay
    /\ \E i \in 1..Len(last.pb.DelayedSiacoinOutputDiffs) :
          /\ last.pb.DelayedSiacoinOutputDiffs[i].MaturityHeight = last.pb.Height
          /\ inDelayedSiacoinOutputsHeight(cs, last.pb.Height,
                                           last.pb.DelayedSiacoinOutputDiffs[i].ID)

\* The bucket that deleteObsoleteDelayedOutputMaps deletes, if it deletes one.
DeletesBucket(pb, dir) == dir = DiffRevert \/ pb.Height > MaturityDelay

ObsoleteBucket(pb, dir) ==
    IF dir = DiffApply THEN pb.Height ELSE pb.Height + MaturityDelay

\* The consensus set of commitDiffSet after the block's diffs are committed.
DiffsCommitted(c, pb, dir) ==
    commitNodeDiffs(
        createUpcomingDelayedOutputMaps(commitDiffSetSanity(c, pb, dir), pb, dir),
        pb, dir)

\* In commitDiffSet the obsolete bucket is empty once the diffs are
\* committed, and the call removes it.
EmptyBucketDeleted ==
    (last'.op = "commitDiffSet" /\ last'.legal /\ DeletesBucket(last'.pb, last'.dir))
        => /\ lenDelayedSiacoinOutputsHeight(
                  DiffsCommitted(cs, last'.pb, last'.dir),
                  ObsoleteBucket(last'.pb, last'.dir)) = 0
           /\ ~inDelayedSiacoinOutputs(cs', ObsoleteBucket(last'.pb, last'.dir))
           /\ ~Panicked(cs')

\* A call of deleteObsoleteDelayedOutputMaps removes no bucket that holds
\* outputs.
OnlyEmptyBucketsDeleted ==
    last'.op = "deleteObsoleteDelayedOutputMaps" =>
    \A h \in (DOMAIN cs.dsco) \ (DOMAIN cs'.dsco) : cs.dsco[h] = EmptyMap

NonEmptyDelete(c, call) ==
    /\ call.op = "deleteObsoleteDelayedOutputMaps"
    /\ DeletesBucket(call.pb, call.dir)
    /\ lenDelayedSiacoinOutputsHeight(c, ObsoleteBucket(call.pb, call.dir)) # 0

NonEmptyDeleteRejected ==
    /\ cs'.panic = "errDeletingNonEmptyDelayedMap"
    /\ cs'.dsco = cs.dsco

\* C14, as stated: a bucket is deleted only when it is empty (on Apply the
\* bucket of the block's height, above MaturityDelay, on Revert the bucket of
\* height + MaturityDelay, after the diffs are committed), and an attempt to
\* delete a bucket that is not empty fails with errDeletingNonEmptyDelayedMap
\* and keeps the bucket and its outputs.
C14_AsStated ==
    [][/\ EmptyBucketDeleted
       /\ OnlyEmptyBucketsDeleted
       /\ NonEmptyDelete(cs, last') => NonEmptyDeleteRejected]_vars

\* C14: a bucket is deleted only when it is empty (on Apply the bucket of the
\* block's height, above MaturityDelay, on Revert the bucket of height +
\* MaturityDelay, after the diffs are committed), and in a build with
\* build.DEBUG and with updateDatabase set an attempt to delete a bucket that
\* is not empty fails with errDeletingNonEmptyDelayedMap and keeps the bucket
\* and its outputs.
C14_DeleteOnlyEmptyBuckets ==
    [][/\ EmptyBucketDeleted
       /\ OnlyEmptyBucketsDeleted
       /\ (NonEmptyDelete(cs, last') /\ cs.debug /\ cs'.updateDatabase)
             => NonEmptyDeleteRejected]_vars

C14_Witness ==
    /\ last.op = "deleteObsoleteDelayedOutputMaps" /\ cs.debug /\ cs.updateDatabase
    /\ last.dir = DiffRevert
    /\ lenDelayedSiacoinOutputsHeight(cs, last.pb.Height + MaturityDelay) # 0
    /\ cs.panic = "errDeletingNonEmptyDelayedMap"

\* The FileContract table and the table of expirations name the same
\* contracts: a contract with window end w is stored exactly when its id is
\* in the expiration set of w.
ContractsMatchExpirations(c) ==
    /\ \A id \in DOMAIN c.fc : inFCExpirationsHeight(c, c.fc[id].WindowEnd, id)
    /\ \A w \in DOMAIN c.fcExp : \A id \in c.fcExp[w] :
          inFileContracts(c, id) /\ c.fc[id].WindowEnd = w

\* C15: in every state between block commits, and after every
\* commitFileContractDiff in either direction, a file contract with id c and
\* window end w is in the FileContract table if and only if c is in
\* FileContractExpiration[w].
C15_ContractsMatchExpirations == ContractsMatchExpirations(cs)

C15_Witness ==
    /\ last.op = "commitDiff" /\ last.list = "FileContractDiffs"
    /\ cs.updateDatabase /\ ~Panicked(cs)
    /\ last.diff.Direction # last.dir
    /\ ~inFileContracts(cs, last.diff.ID)
    /\ inFCExpirations(cs, last.diff.FileContract.WindowEnd)
    /\ \E id \in DOMAIN cs.fc : inFCExpirationsHeight(cs, cs.fc[id].WindowEnd, id)

\* The siafund pool diffs stored in the blocks of the current path, in the
\* order of the path.
RECURSIVE PathPoolDiffs(_, _)
PathPoolDiffs(c, n) ==
    IF n = 0 THEN <<>>
    ELSE PathPoolDiffs(c, n - 1) \o c.blockMap[c.path[n]].SiafundPoolDiffs

\* A block that is generated and applied does not lower the pool, and every
\* stored pool diff has Adjusted >= Previous.
PoolGrows ==
    /\ (last'.op = "generateAndApplyDiff" /\ ~Panicked(cs'))
          => cs'.siafundPool >= cs.siafundPool
    /\ \A b \in DOMAIN cs'.blockMap :
          \A i \in 1..Len(cs'.blockMap[b].SiafundPoolDiffs) :
             cs'.blockMap[b].SiafundPoolDiffs[i].Adjusted
                >= cs'.blockMap[b].SiafundPoolDiffs[i].Previous

ShrinkingCommit(call) ==
    /\ call.op = "commitSiafundPoolDiff"
    /\ call.diff.Adjusted < call.diff.Previous

ShrinkingRejected ==
    /\ cs'.panic = "errNegativePoolAdjustment"
    /\ cs'.siafundPool = cs.siafundPool

\* C16, as stated: along a chain of Apply commits the siafund pool never
\* decreases from one block to the next, each SiafundPoolDiff has Adjusted >=
\* Previous, and committing a diff with Adjusted < Previous fails with
\* errNegativePoolAdjustment.
C16_AsStated ==
    [][PoolGrows /\ (ShrinkingCommit(last') => ShrinkingRejected)]_vars

\* C16: along a chain of Apply commits the siafund pool never decreases from
\* one block to the next, each SiafundPoolDiff has Adjusted >= Previous, and
\* in a build with build.DEBUG committing a diff with Adjusted < Previous
\* fails with errNegativePoolAdjustment and leaves the pool as it was.
C16_PoolNeverShrinks ==
    [][PoolGrows /\ ((ShrinkingCommit(last') /\ cs.debug) => ShrinkingRejected)]_vars

C16_Witness ==
    /\ last.op = "commitSiafundPoolDiff" /\ cs.debug
    /\ last.diff.Adjusted < last.diff.Previous
    /\ last.diff.Direction = DiffApply
    /\ last.diff.Previous = cs.siafundPool /\ cs.siafundPool > 0
    /\ cs.panic = "errNegativePoolAdjustment"

\* The pool value a commit in the direction requires, the one it sets, and
\* the failure of a mismatch.
PoolRequired(sfpd, dir) == IF dir = DiffApply THEN sfpd.Previous ELSE sfpd.Adjusted

PoolSet(sfpd, dir) == IF dir = DiffApply THEN sfpd.Adjusted ELSE sfpd.Previous

MismatchError(dir) ==
    IF dir = DiffApply THEN "errApplySiafundPoolDiffMismatch"
    ELSE "errRevertSiafundPoolDiffMismatch"

PoolCommitChains(c, call) ==
    IF c.siafundPool = PoolRequired(call.diff, call.dir)
    THEN ~Panicked(cs') /\ cs'.siafundPool = PoolSet(call.diff, call.dir)
    ELSE cs'.panic = MismatchError(call.dir) /\ cs'.siafundPool = c.siafundPool

\* A diff that passes the two checks made before the comparison.
PoolDiffAdmitted(sfpd) ==
    sfpd.Adjusted >= sfpd.Previous /\ sfpd.Direction = DiffApply

\* Successive recorded diffs of the current path: each starts at the value
\* the one before ended at, and the first starts at the pool of genesis.
RecordedPoolDiffsChain(c) ==
    LET diffs == PathPoolDiffs(c, Len(c.path))
    IN  /\ diffs # <<>> => diffs[1].Previous = GenesisState(c.debug).siafundPool
        /\ \A n \in 2..Len(diffs) : diffs[n].Previous = diffs[n - 1].Adjusted

\* C17, as stated: a commit of a SiafundPoolDiff with Apply requires the pool
\* to equal Previous and sets it to Adjusted, a commit with Revert requires
\* the pool to equal Adjusted and sets it to Previous, a mismatch fails with
\* errApplySiafundPoolDiffMismatch / errRevertSiafundPoolDiffMismatch and
\* leaves the pool unchanged, and successive recorded diffs chain by equality.
C17_AsStated ==
    [][/\ last'.op = "commitSiafundPoolDiff" => PoolCommitChains(cs, last')
       /\ RecordedPoolDiffsChain(cs')]_vars

\* C17: in a build with build.DEBUG, a commit of a SiafundPoolDiff that is
\* tagged Apply and has Adjusted >= Previous requires with Apply the pool to
\* equal Previous and sets it to Adjusted, requires with Revert the pool to
\* equal Adjusted and sets it to Previous, and on a mismatch fails with
\* errApplySiafundPoolDiffMismatch / errRevertSiafundPoolDiffMismatch and
\* leaves the pool unchanged; successive recorded diffs chain by equality.
C17_PoolDiffsChain ==
    [][/\ (last'.op = "commitSiafundPoolDiff" /\ cs.debug
              /\ PoolDiffAdmitted(last'.diff))
          => PoolCommitChains(cs, last')
       /\ RecordedPoolDiffsChain(cs')]_vars

C17_Witness ==
    /\ last.op = "commitSiafundPoolDiff" /\ cs.debug
    /\ PoolDiffAdmitted(last.diff) /\ last.dir = DiffRevert
    /\ cs.panic = "errRevertSiafundPoolDiffMismatch"
    /\ Len(PathPoolDiffs(cs, Len(cs.path))) >= 2

\* Every pool diff stored in a block of the block map is tagged Apply.
StoredPoolDiffsApply(c) ==
    \A b \in DOMAIN c.blockMap :
       \A i \in 1..Len(c.blockMap[b].SiafundPoolDiffs) :
          c.blockMap[b].SiafundPoolDiffs[i].Direction = DiffApply

RevertTaggedPoolCommit(call) ==
    call.op = "commitSiafundPoolDiff" /\ call.diff.Direction # DiffApply

\* The commit fails and leaves the pool; the check of Adjusted < Previous
\* comes first, so the failure names the tag when that check passes.
RevertTaggedRejected(call) ==
    /\ Panicked(cs')
    /\ call.diff.Adjusted >= call.diff.Previous
          => cs'.panic = "errNonApplySiafundPoolDiff"
    /\ cs'.siafundPool = cs.siafundPool

\* C18, as stated: every SiafundPoolDiff stored in a block's diff set is
\* tagged Apply, and commitSiafundPoolDiff rejects with
\* errNonApplySiafundPoolDiff a pool diff whose tag is not Apply, whatever
\* the direction of the commit.
C18_AsStated ==
    [][/\ StoredPoolDiffsApply(cs')
       /\ RevertTaggedPoolCommit(last') => RevertTaggedRejected(last')]_vars

\* C18: every SiafundPoolDiff stored in a block's diff set is tagged Apply,
\* and in a build with build.DEBUG commitSiafundPoolDiff rejects a pool diff
\* whose tag is not Apply, whatever the direction of the commit, and leaves
\* the pool unchanged; the failure is errNonApplySiafundPoolDiff unless the
\* diff has Adjusted < Previous.
C18_PoolDiffsTaggedApply ==
    [][/\ StoredPoolDiffsApply(cs')
       /\ (RevertTaggedPoolCommit(last') /\ cs.debug)
          => RevertTaggedRejected(last')]_vars

C18_Witness ==
    /\ last.op = "commitSiafundPoolDiff" /\ cs.debug
    /\ last.diff.Direction = DiffRevert /\ last.dir = DiffRevert
    /\ last.diff.Adjusted = cs.siafundPool /\ last.diff.Previous < last.diff.Adjusted
    /\ cs.panic = "errNonApplySiafundPoolDiff"
    /\ \E b \in DOMAIN cs.blockMap : cs.blockMap[b].SiafundPoolDiffs # <<>>

\* The diffs of one list stored in the blocks of the current path, folded
\* from genesis in the order of the path.
RECURSIVE PathDiffs(_, _, _)
PathDiffs(c, list, n) ==
    IF n = 0 THEN <<>>
    ELSE PathDiffs(c, list, n - 1) \o c.blockMap[c.path[n]][list]

\* The ids the first n diffs introduce and do not remove again; ok is false
\* when an id is introduced while present or removed while absent.
RECURSIVE FoldIDs(_, _)
FoldIDs(diffs, n) ==
    IF n = 0 THEN [ids |-> {}, ok |-> TRUE]
    ELSE LET f == FoldIDs(diffs, n - 1)
             d == diffs[n]
         IN  IF d.Direction = DiffApply
             THEN [ids |-> f.ids \cup {d.ID}, ok |-> f.ok /\ d.ID \notin f.ids]
             ELSE [ids |-> f.ids \ {d.ID}, ok |-> f.ok /\ d.ID \in f.ids]

Introduced(c, list) ==
    FoldIDs(PathDiffs(c, list, Len(c.path)), Len(PathDiffs(c, list, Len(c.path))))

TableOfPath(c, table, list) ==
    /\ Introduced(c, list).ok
    /\ DOMAIN table = Introduced(c, list).ids

\* C19: in every state between block commits the CoinOutput, SiafundOutput
\* and FileContract tables hold exactly the ids that the diffs of the blocks
\* of the current path, folded from genesis in path order, introduce with an
\* Apply diff and do not remove later with a Revert diff, and no id is
\* introduced twice without a removal in between.
C19_TablesFoldOfPath ==
    ~Panicked(cs) =>
        /\ TableOfPath(cs, cs.sco, "SiacoinOutputDiffs")
        /\ TableOfPath(cs, cs.sfo, "SiafundOutputDiffs")
        /\ TableOfPath(cs, cs.fc, "FileContractDiffs")

C19_Witness ==
    /\ last.op = "commitDiffSet" /\ last.dir = DiffRevert /\ last.legal
    /\ ~Panicked(cs)
    /\ last.pb.SiacoinOutputDiffs # <<>> /\ last.pb.FileContractDiffs # <<>>
    /\ \E i \in 1..Len(PathDiffs(cs, "SiacoinOutputDiffs", Len(cs.path))) :
          PathDiffs(cs, "SiacoinOutputDiffs", Len(cs.path))[i].Direction = DiffRevert
    /\ cs.fc # EmptyMap /\ cs.sco # EmptyMap

\* A revert of the tip block by commitDiffSet.
TipReverted(c, call) ==
    /\ call.op = "commitDiffSet" /\ call.dir = DiffRevert /\ call.legal
    /\ call.pb.ID = currentBlockID(c)

\* C20: reverting the tip block of a chain built by successful
\* generateAndApplyDiff and commitDiffSet calls raises no sanity failure: no
\* delete of an absent id, no insert of a present id, no delayed diff on a
\* missing bucket, no creation of an existing bucket, no deletion of a
\* non-empty bucket, no pool mismatch.
C20_RevertTipNeverFails ==
    [][TipReverted(cs, last') =>
          /\ ~Panicked(cs')
          /\ currentBlockID(cs') = last'.pb.Parent]_vars

C20_Witness ==
    /\ last.op = "commitDiffSet" /\ last.dir = DiffRevert /\ last.legal
    /\ ~Panicked(cs) /\ cs.debug
    /\ currentBlockID(cs) = last.pb.Parent
    /\ last.pb.SiacoinOutputDiffs # <<>> /\ last.pb.FileContractDiffs # <<>>
    /\ last.pb.DelayedSiacoinOutputDiffs # <<>> /\ last.pb.SiafundPoolDiffs # <<>>

\* The id is in no bucket of delayed outputs.
NotDelayed(c, id) == \A h \in DOMAIN c.dsco : id \notin DOMAIN c.dsco[h]

\* The miner payout of the block at height h of the current path, seen from
\* the tip: delayed in the bucket of h + MaturityDelay while the tip is below
\* that height, spendable when the tip reaches it, and from then on in no
\* bucket, the bucket of h + MaturityDelay being gone.
PayoutOfHeight(c, h) ==
    IF Height(c) < h + MaturityDelay
    THEN /\ inDelayedSiacoinOutputsHeight(c, h + MaturityDelay,
                                         MinerPayoutID(c.path[h + 1]))
         /\ ~inSiacoinOutputs(c, MinerPayoutID(c.path[h + 1]))
    ELSE /\ NotDelayed(c, MinerPayoutID(c.path[h + 1]))
         /\ ~inDelayedSiacoinOutputs(c, h + MaturityDelay)
         /\ Height(c) = h + MaturityDelay
               => inSiacoinOutputs(c, MinerPayoutID(c.path[h + 1]))

ProvenIn(pb, fcid) ==
    \E i \in 1..Len(pb.Transactions) :
        pb.Transactions[i] = [kind |-> "proof", input |-> fcid]

\* The contracts of c that are open at the end of their window when the
\* block is applied.
MissedIn(c, pb) ==
    {fcid \in DOMAIN c.fc : c.fc[fcid].WindowEnd = pb.Height /\ ~ProvenIn(pb, fcid)}

MissedProofResolved(c, pb, fcid) ==
    /\ inDelayedSiacoinOutputsHeight(cs', pb.Height + MaturityDelay,
                                     StorageProofOutputID(fcid, FALSE))
    /\ cs'.dsco[pb.Height + MaturityDelay][StorageProofOutputID(fcid, FALSE)]
          = c.fc[fcid].Payout
    /\ ~inSiacoinOutputs(cs', StorageProofOutputID(fcid, FALSE))
    /\ ~inFileContracts(cs', fcid)

NoExpirationsAt(c, h) == inFCExpirations(c, h) => c.fcExp[h] = {}

\* C22: when a block at height H is applied while a file contract with
\* window end H is open and has no storage proof, the block's maintenance
\* puts the contract's missed proof output into the bucket of
\* H + MaturityDelay, removes the contract from the FileContract table, and
\* leaves FileContractExpiration[H] with no ids.
C22_MissedProofMaintenance ==
    [][(Generated(last') /\ last'.err = NoError /\ ~Panicked(cs'))
          => /\ \A fcid \in MissedIn(cs, last'.pb) :
                   MissedProofResolved(cs, last'.pb, fcid)
             /\ NoExpirationsAt(cs', last'.pb.Height)]_vars

C22_Witness ==
    /\ Generated(last) /\ last.err = NoError /\ ~Panicked(cs)
    /\ inFCExpirations(cs, last.pb.Height) /\ cs.fcExp[last.pb.Height] = {}
    /\ \E i \in 1..Len(cs.blockMap[last.id].FileContractDiffs) :
          LET d == cs.blockMap[last.id].FileContractDiffs[i]
          IN  /\ d.Direction = DiffRevert
              /\ ~ProvenIn(last.pb, d.ID)
              /\ inDelayedSiacoinOutputsHeight(cs, last.pb.Height + MaturityDelay,
                                               StorageProofOutputID(d.ID, FALSE))

\* C23: a reader that observes the consensus set while a block commit or a
\* reorg is in progress sees the complete state before it or the complete
\* state after it: the snapshot it took is the state as it was when the
\* lock was last free; a call is in progress only under the lock, and the
\* consensus set changes only under the lock.
C23_ReadersSeeNoPartialCommit ==
    /\ run.seen = run.seenBoundary
    /\ run.pc # "idle" => run.lock = "writer"
    /\ run.lock = "free" => Snapshot(cs) = run.boundary

C23_Witness ==
    /\ run.lock = "writer" /\ run.pc = "deleteObsoleteDelayedOutputMaps"
    /\ run.seen = run.boundary
    /\ run.seen # Snapshot(GenesisState(TRUE))
    /\ Snapshot(cs) # run.boundary
    /\ cs.path = run.boundary.path

\* The notifications that have left the writer, in the order the subscriber
\* receives them, and with them the ones of the lock that is held.
Sent(r) == r.delivered \o r.queue

Notified(r) == Sent(r) \o r.changes

Count(seq, x) == Cardinality({i \in 1..Len(seq) : seq[i] = x})

\* A block that generateAndApplyDiff has stored in the block map.
Persisted(c, b) == b \in DOMAIN c.blockMap /\ c.blockMap[b].DiffsGenerated

KeptBlocks == (DOMAIN cs.blockMap) \cap (DOMAIN cs'.blockMap)

\* C25: a block's DiffsGenerated flag goes from false to true only inside
\* generateAndApplyDiff on that block, where it is set before the first
\* transaction is validated (so that the diffs of a block that turns out to
\* be invalid are reverted by commitDiffSet without a failure), and it never
\* goes back to false; commitDiffSet in either direction leaves the five
\* diff lists and the flag of every block unchanged.
C25_DiffsGeneratedOnce ==
    [][/\ \A b \in KeptBlocks :
             /\ cs.blockMap[b].DiffsGenerated => cs'.blockMap[b].DiffsGenerated
             /\ cs'.blockMap[b].DiffsGenerated # cs.blockMap[b].DiffsGenerated
                   => last'.op = "generateAndApplyDiff" /\ last'.id = b
       /\ (Generated(last') /\ last'.err = NoError /\ ~Panicked(cs'))
             => cs'.blockMap[last'.id].DiffsGenerated
       /\ (Generated(last') /\ last'.err # NoError) => ~Panicked(cs')
       /\ last'.op = "commitDiffSet" => cs'.blockMap = cs.blockMap]_vars

C25_Witness ==
    /\ last.op = "commitDiffSet" /\ last.legal /\ last.dir = DiffRevert
    /\ ~Panicked(cs)
    /\ cs.blockMap[last.id] = last.pb
    /\ last.pb.DiffsGenerated
    /\ last.pb.SiacoinOutputDiffs # <<>> /\ last.pb.DelayedSiacoinOutputDiffs # <<>>
    /\ cs.dosBlocks # {}

\* C26: on the path of a transaction that is not valid, at any height of the
\* block, applying the matured outputs and then commitDiffSet with Revert
\* raises no sanity failure of the buckets (no bucket created that exists,
\* no delayed diff on a missing bucket, no bucket deleted that holds
\* outputs) and no other failure, and the buckets with their outputs are as
\* before the call.
C26_FailurePathBuckets ==
    [][(Generated(last') /\ last'.err # NoError)
          => ~Panicked(cs') /\ cs'.dsco = cs.dsco]_vars

C26_Witness ==
    /\ Generated(last) /\ last.err # NoError /\ ~Panicked(cs) /\ cs.debug
    /\ last.pb.Height > MaturityDelay
    /\ lenDelayedSiacoinOutputsHeight(cs, last.pb.Height) # 0
    /\ ~inDelayedSiacoinOutputs(cs, last.pb.Height + MaturityDelay)

\* ------------------------------------------- transactions of one block
\* The second transaction spends what the first one creates.
SpendsCreated(t, u) ==
    \/ t.kind = "siacoin" /\ u.kind \in {"siacoin", "contract"}
          /\ u.input = SiacoinOutputID(t.input)
    \/ t.kind = "contract" /\ u.kind = "proof" /\ u.input = FileContractID(t.input)

\* The second transaction spends what the first one spends.
SpendsSame(t, u) ==
    /\ u.input = t.input
    /\ \/ {t.kind, u.kind} \subseteq {"siacoin", "contract"}
       \/ t.kind = u.kind

\* The list of the block's diffs that holds what the transaction spends.
SpentList(u) ==
    CASE u.kind \in {"siacoin", "contract"} -> "SiacoinOutputDiffs"
      [] u.kind = "siafund" -> "SiafundOutputDiffs"
      [] u.kind = "proof" -> "FileContractDiffs"

\* The diff that creates the id comes before the diff that spends it.
CreatedThenSpent(diffs, id) ==
    \E i, j \in 1..Len(diffs) :
        /\ i < j
        /\ diffs[i].ID = id /\ diffs[i].Direction = DiffApply
        /\ diffs[j].ID = id /\ diffs[j].Direction = DiffRevert

\* A block of two transactions whose first one is valid on the parent.
TwoTransactions(c, call) ==
    /\ Generated(call)
    /\ Len(call.pb.Transactions) = 2
    /\ validTransaction(c, call.pb, call.pb.Transactions[1]) = NoError

\* C27: in generateAndApplyDiff a transaction is validated against the state
\* that holds the effects of the earlier transactions of the block.  When the
\* second transaction spends what the first one creates, the block is accepted
\* and the diff that creates the output comes before the diff that spends it;
\* when it spends what the first one spends, the block is rejected and the
\* path is the one before the call.
C27_ValidatedInBlockOrder ==
    [][(TwoTransactions(cs, last') /\ ~Panicked(cs'))
          => LET t == last'.pb.Transactions[1]
                 u == last'.pb.Transactions[2]
             IN  /\ SpendsCreated(t, u)
                       => /\ last'.err = NoError
                          /\ currentBlockID(cs') = last'.id
                          /\ CreatedThenSpent(cs'.blockMap[last'.id][SpentList(u)],
                                              u.input)
                 /\ SpendsSame(t, u)
                       => /\ last'.err # NoError
                          /\ cs'.path = cs.path
                          /\ last'.id \notin DOMAIN cs'.blockMap]_vars

C27_Witness ==
    /\ Generated(last) /\ ~Panicked(cs) /\ last.err = NoError
    /\ Len(last.pb.Transactions) = 2
    /\ SpendsCreated(last.pb.Transactions[1], last.pb.Transactions[2])
    /\ currentBlockID(cs) = last.id

\* A block whose second transaction spends what the first one spends has
\* been rejected.
SecondSpendRejected ==
    /\ Generated(last) /\ ~Panicked(cs) /\ last.err = "DoubleSpend"
    /\ Len(last.pb.Transactions) = 2
    /\ SpendsSame(last.pb.Transactions[1], last.pb.Transactions[2])

\* ------------------------------------------------ buckets per direction
\* The consensus set of commitDiffSet once createUpcomingDelayedOutputMaps
\* has run, before the block's diffs are committed.
UpcomingMade(c, pb, dir) ==
    createUpcomingDelayedOutputMaps(commitDiffSetSanity(c, pb, dir), pb, dir)

\* The heights that have a bucket.
Buckets(c) == DOMAIN c.dsco

\* The buckets that a step makes and the buckets that it deletes.
Made(before, after) == Buckets(after) \ Buckets(before)
Deleted(before, after) == Buckets(before) \ Buckets(after)

\* C28: in a commitDiffSet on a block of height H, Apply makes the bucket of
\* H + MaturityDelay before the diffs are committed, and afterwards deletes
\* the bucket of H when H > MaturityDelay and no bucket when H <=
\* MaturityDelay; Revert makes the bucket of H before the diffs are committed
\* when H > MaturityDelay and no bucket when H <= MaturityDelay, and
\* afterwards deletes the bucket of H + MaturityDelay.
C28_BucketsPerDirection ==
    [][(last'.op = "commitDiffSet" /\ last'.legal)
          => LET H == last'.pb.Height
                 mid == UpcomingMade(cs, last'.pb, last'.dir)
             IN  /\ ~Panicked(cs')
                 /\ Deleted(cs, mid) = {}
                 /\ Made(mid, cs') = {}
                 /\ IF last'.dir = DiffApply
                    THEN /\ Made(cs, mid) = {H + MaturityDelay}
                         /\ Deleted(mid, cs')
                               = IF H > MaturityDelay THEN {H} ELSE {}
                    ELSE /\ Made(cs, mid)
                               = IF H > MaturityDelay THEN {H} ELSE {}
                         /\ Deleted(mid, cs') = {H + MaturityDelay}]_vars

\* A block of a height up to MaturityDelay has been reverted.
C28_Witness ==
    /\ last.op = "commitDiffSet" /\ last.legal /\ ~Panicked(cs)
    /\ last.dir = DiffRevert
    /\ last.pb.Height <= MaturityDelay
    /\ Buckets(cs) = {}

\* Both directions at a height above MaturityDelay.
AppliedAboveMaturityDelay ==
    /\ last.op = "commitDiffSet" /\ last.legal /\ ~Panicked(cs)
    /\ last.dir = DiffApply /\ last.pb.Height > MaturityDelay

RevertedAboveMaturityDelay ==
    /\ last.op = "commitDiffSet" /\ last.legal /\ ~Panicked(cs)
    /\ last.dir = DiffRevert /\ last.pb.Height > MaturityDelay

\* ------------------------------------------------------- storage errors
\* C29: whenever generateAndApplyDiff returns an error, from the validation
\* of a transaction or from pushPath, rmBlockMap or addBlockMap, the block is
\* not the tip, and the current path, the counter of loaded blocks, the
\* buckets and the tables are as they were before the call.
C29_AnyErrorLeavesNoTip ==
    [][(Generated(last') /\ last'.err # NoError)
          => /\ currentBlockID(cs') # last'.id
             /\ cs'.blocksLoaded = cs.blocksLoaded
             /\ Tables(cs') = Tables(cs)]_vars

\* A storage error of pushPath leaves everything as it was.
PushPathErrorRestores ==
    [][(Generated(last') /\ last'.err = StorageError /\ last'.fail = "pushPath")
          => /\ cs'.blocksLoaded = cs.blocksLoaded
             /\ Tables(cs') = Tables(cs)]_vars

\* A storage error of rmBlockMap or addBlockMap leaves the block as the tip,
\* with its diffs and the maintenance applied.
BlockMapErrorKeepsTip ==
    [][(Generated(last') /\ last'.err = StorageError /\ last'.fail # "pushPath"
            /\ ~Panicked(cs'))
          => /\ currentBlockID(cs') = last'.id
             /\ cs'.blocksLoaded = cs.blocksLoaded + 1
             /\ inDelayedSiacoinOutputs(cs', last'.pb.Height + MaturityDelay)]_vars

\* ------------------------------------------------------ sliding window
Max(a, b) == IF a >= b THEN a ELSE b

\* The heights that have a bucket when the tip is at height n.
Window(n) == (Max(n, MaturityDelay) + 1)..(n + MaturityDelay)

\* C30: after any sequence of generations and of applies and reverts of
\* blocks by commitDiffSet that keep the preconditions, with the tip at
\* height n, the buckets that exist are the ones of the heights
\* max(n, MaturityDelay) + 1 to n + MaturityDelay: none at or below the
\* tip's height, none above n + MaturityDelay, and MaturityDelay of them once
\* n >= MaturityDelay.
C30_SlidingWindow ==
    (~Panicked(cs) /\ last.legal)
        => /\ Buckets(cs) = Window(Height(cs))
           /\ Height(cs) >= MaturityDelay
                 => Cardinality(Buckets(cs)) = MaturityDelay

\* A block above MaturityDelay has been reverted and applied again.
C30_Witness ==
    /\ ~Panicked(cs) /\ last.op = "commitDiffSet" /\ last.legal
    /\ last.dir = DiffApply
    /\ Height(cs) > MaturityDelay
    /\ Buckets(cs) = Window(Height(cs))
    /\ Buckets(cs) # {}

\* The tip is the genesis block after a revert, and no bucket exists.
WindowAtGenesis ==
    /\ ~Panicked(cs) /\ last.op = "commitDiffSet" /\ last.legal
    /\ last.dir = DiffRevert /\ Height(cs) = 0 /\ Buckets(cs) = Window(0)

\* ------------------------------------------ the in-memory expirations
\* A call of commitFileContractDiff that takes the insert branch and passes
\* the sanity checks before the insert.
InsertsExpiration(c, call) ==
    /\ call.op = "commitFileContractDiff"
    /\ call.diff.Direction = call.dir
    /\ c.panic \notin {"errBadCommitFileContractDiff",
                       "errExistingFileContractExpiration"}

NilMapWrite == "assignment to entry in nil map"

\* C31: whenever commitFileContractDiff puts a contract id into
\* fileContractExpirations[WindowEnd], the set of that window end exists in
\* the in-memory index, with either value of updateDatabase and whether or
\* not the database holds the expiration set of that window end: the insert
\* never writes into a set that was not made.
C31_InsertFindsSet ==
    [][InsertsExpiration(cs', last')
          => /\ cs'.panic # NilMapWrite
             /\ last'.diff.FileContract.WindowEnd
                   \in DOMAIN cs'.fileContractExpirations
             /\ last'.diff.ID
                   \in cs'.fileContractExpirations[
                           last'.diff.FileContract.WindowEnd]]_vars

\* With updateDatabase set the insert finds the set.
InsertFindsSetWhenUpdating ==
    [][(InsertsExpiration(cs', last') /\ cs'.updateDatabase)
          => /\ cs'.panic # NilMapWrite
             /\ last'.diff.ID
                   \in cs'.fileContractExpirations[
                           last'.diff.FileContract.WindowEnd]]_vars

\* Without updateDatabase the insert finds the set only when the in-memory
\* index held it before the call.
InsertWithoutUpdateNeedsSet ==
    [][(InsertsExpiration(cs', last') /\ ~cs'.updateDatabase)
          => (cs'.panic = NilMapWrite)
                = (last'.diff.FileContract.WindowEnd
                      \notin DOMAIN cs.fileContractExpirations)]_vars

\* ------------------------------------------- without updateDatabase
\* The tables of the database.
Database(c) ==
    [path |-> c.path, sco |-> c.sco, sfo |-> c.sfo, fc |-> c.fc, dsco |-> c.dsco,
     fcExp |-> c.fcExp]

\* The siafund pool that the block's pool diffs leave in a direction.
PoolAfter(c, pb, dir) ==
    IF pb.SiafundPoolDiffs = <<>> THEN c.siafundPool
    ELSE IF dir = DiffApply THEN Last(pb.SiafundPoolDiffs).Adjusted
    ELSE Head(pb.SiafundPoolDiffs).Previous

\* The file contract diffs of the block in the order of a direction, and the
\* last of them on a contract.
ContractDiffsInOrder(pb, dir) ==
    IF dir = DiffApply THEN pb.FileContractDiffs ELSE Reverse(pb.FileContractDiffs)

LastOn(diffs, id) ==
    diffs[CHOOSE i \in 1..Len(diffs) :
              /\ diffs[i].ID = id
              /\ \A j \in (i + 1)..Len(diffs) : diffs[j].ID # id]

\* The in-memory expirations that the block's file contract diffs leave in a
\* direction: a contract is in the set of its window end when the last diff
\* on it inserts it, and not when the last diff on it deletes it.
ExpirationsAfter(c, pb, dir) ==
    LET diffs == ContractDiffsInOrder(pb, dir)
        ids == {diffs[i].ID : i \in 1..Len(diffs)}
        put == {id \in ids : LastOn(diffs, id).Direction = dir}
    IN  [h \in DOMAIN c.fileContractExpirations |->
            (c.fileContractExpirations[h] \ ids)
                \cup {id \in put : LastOn(diffs, id).FileContract.WindowEnd = h}]

WithoutUpdate(c, call) ==
    call.op = "commitDiffSet" /\ call.legal /\ ~c.updateDatabase

AppliedWithoutUpdate ==
    /\ WithoutUpdate(cs, last) /\ ~Panicked(cs)
    /\ last.dir = DiffApply
    /\ last.pb.FileContractDiffs # <<>>
    /\ cs.fileContractExpirations # cs.fcExp

\* ------------------------------------------------ the loaded blocks
\* The blocks that a call adds to the current path.
PathStep(call) ==
    IF call.op = "commitDiffSet"
    THEN IF call.dir = DiffApply THEN 1 ELSE -1
    ELSE IF call.op = "generateAndApplyDiff" /\ call.err = NoError THEN 1
    ELSE 0

\* C36: blocksLoaded grows by one in every commitDiffSet with Apply and every
\* generateAndApplyDiff that returns nil, and falls by one in every
\* commitDiffSet with Revert; a generateAndApplyDiff that fails on a
\* transaction leaves it as it was.  With updateDatabase the difference
\* between blocksLoaded and the length of the current path is the same after
\* every call as before it.
C36_BlocksLoadedFollowsPath ==
    [][(last'.legal /\ ~Panicked(cs')
           /\ last'.op \in {"commitDiffSet", "generateAndApplyDiff"})
          => /\ cs'.blocksLoaded = cs.blocksLoaded + PathStep(last')
             /\ cs'.blocksLoaded - Len(cs'.path) = cs.blocksLoaded - Len(cs.path)]_vars

\* A generation has failed on a transaction after blocks have been applied
\* and reverted.
C36_Witness ==
    /\ Generated(last) /\ last.err # NoError /\ ~Panicked(cs)
    /\ cs.updateDatabase
    /\ Len(cs.path) > 1
    /\ cs.blocksLoaded = Len(cs.path)

\* ------------------------------------------------------- DNode.Close
\* The thread whose step is the part of Close between Lock and Unlock, and
\* the thread whose step is the managedRemoveDir that Close calls on the
\* parent of the node.
Closes(p) == fs.proc[p].pc = "Close" /\ fs'.proc[p].pc # "Close"

ClosedCopy(f, p) == HandleOf(f, fs.proc[p].h)

RemovesClosed(p) ==
    /\ fs.proc[p].pc = "managedRemoveDir" /\ fs.proc[p].op = "Close"
    /\ fs.proc[p].h # NoHandle
    /\ fs'.proc[p] # fs.proc[p]

Unused(f, n) == f.threads[n] = {} /\ f.directories[n] = {} /\ f.files[n] = {}

\* C33: Close takes the node out of the directories of its parent when,
\* after the close, the node has no threads, no directories and no files,
\* and leaves it there otherwise; a node with a thread, a directory or a
\* file is never taken out of its parent by Close; the SiaDir of the closed
\* copy is cleared exactly when no thread is left on the node.
C33_CloseRemovesUnusedNode ==
    [][\A p \in Procs :
          /\ Closes(p)
                => LET n == fs.proc[p].node
                   IN  /\ fs'.threads[n] = fs.threads[n] \ {fs.proc[p].h}
                       /\ ClosedCopy(fs', p).loaded
                             = (ClosedCopy(fs, p).loaded /\ fs'.threads[n] # {})
                       /\ fs'.directories = fs.directories
                       /\ (fs'.proc[p].pc = "managedRemoveDir")
                             = (staticParent(n) # NoDir /\ Unused(fs', n))
                       /\ fs'.proc[p].pc = "managedRemoveDir"
                             => /\ fs'.proc[p].node = staticParent(n)
                                /\ fs'.proc[p].child = n
          /\ RemovesClosed(p)
                => /\ Unused(fs, fs.proc[p].child)
                   /\ fs.proc[p].child \in fs.directories[fs.proc[p].node]
                   /\ fs.proc[p].child \notin fs'.directories[fs.proc[p].node]]_vars

\* Two threads have closed their copies of e, one with its SiaDir loaded
\* when it was not the last one: e has left d, and d has left the root.
C33_Witness ==
    /\ \A p \in Procs : fs.proc[p].pc = "idle"
    /\ \E x, y \in fs.handles :
          /\ x.node = "e" /\ y.node = "e" /\ x.owner # y.owner
          /\ ~x.open /\ ~y.open
          /\ x.loaded /\ ~y.loaded
    /\ fs.threads["e"] = {}
    /\ "e" \notin fs.directories["d"]
    /\ fs.directories[RootDir] = {}

\* A copy has been closed while the node keeps a file: the node stays.
ClosedWithFile ==
    /\ \A p \in Procs : fs.proc[p].pc = "idle"
    /\ \E x \in fs.handles : x.node = "e" /\ ~x.open
    /\ fs.threads["e"] = {} /\ fs.files["e"] # {}
    /\ "e" \in fs.directories["d"]

\* No call of managedCopy returns.
CopyNeverReturns == \A p \in Procs : fs.proc[p].pc # "managedCopy.returned"

\* ------------------------------------------------------ DNode.openDir
\* The step of a thread inside a call of managedOpenDir or managedList, the
\* two callers of openDir.
StepsInOpenDir(p) ==
    /\ fs.proc[p].op \in {"managedOpenDir", "managedList"}
    /\ fs'.proc[p] # fs.proc[p]

\* C34: openDir returns the directory without cloning it: no step of a call
\* that goes through openDir adds an entry to the threads map of a
\* directory, so the number of threads of every directory is the same after
\* the step as before it.
C34_OpenDirAddsNoThread ==
    [][\A p \in Procs :
          StepsInOpenDir(p)
              => \A n \in Dirs :
                    Cardinality(fs'.threads[n]) = Cardinality(fs.threads[n])]_vars

\* The thread that openDir has made the copy for, in a directory that was in
\* the map of its parent already and in one that openDir has put there.
OpenDirCopied(f, p) ==
    /\ f.proc[p].op \in {"managedOpenDir", "managedList"}
    /\ f.proc[p].pc = "managedCopy.defer"
    /\ f.proc[p].h \in f.threads[f.proc[p].node]

\* Every call through openDir that finds the directory makes a copy of it:
\* the thread is in the managedCopy of the directory, and the step after the
\* Lock of that managedCopy adds exactly one thread to the directory.
OpenDirCopies ==
    [][\A p \in Procs :
          (StepsInOpenDir(p) /\ fs.proc[p].pc = "managedCopy")
              => /\ OpenDirCopied(fs', p)
                 /\ fs'.threads[fs.proc[p].node]
                       = fs.threads[fs.proc[p].node] \cup {fs'.proc[p].h}
                 /\ fs'.proc[p].h \notin fs.threads[fs.proc[p].node]]_vars

\* ------------------------------------------------------ the node mutex
\* The thread is at a Lock of the mutex of its node.
AtLock(f, p) ==
    \/ f.proc[p].pc \in {"Close", "managedRemoveDir", "managedCopy",
                         "managedCopy.defer", "managedOpenDir"}
    \/ f.proc[p].pc = "managedList" /\ f.proc[p].todo # <<>>

\* C35: every operation releases the mutex of the node before it returns and
\* before it locks it again: a thread that is in no call holds no mutex, and
\* no thread is at a Lock of a mutex that it holds itself.
C35_MutexReleased ==
    \A p \in Procs :
        /\ fs.proc[p].pc = "idle" => \A n \in Dirs : fs.mu[n] # p
        /\ AtLock(fs, p) => fs.mu[fs.proc[p].node] # p

\* managedCopy is at its deferred Lock with the mutex of the node held by
\* the Lock at its start.
CopyLocksTwice ==
    \E p \in Procs :
        /\ fs.proc[p].pc = "managedCopy.defer"
        /\ fs.mu[fs.proc[p].node] = p

\* managedList is at the Lock of its next turn with the mutex of the node
\* held by the turn of a file.
ListLocksTwice ==
    \E p \in Procs :
        /\ fs.proc[p].pc = "managedList" /\ fs.proc[p].todo # <<>>
        /\ fs.mu[fs.proc[p].node] = p

\* A mutex that managedCopy or managedList has taken is never free again.
MutexNeverFreed ==
    [][\A n \in Dirs : fs.mu[n] # Free => fs'.mu[n] = fs.mu[n]]_vars

====
